---- MODULE Spec2Model ----
(***************************************************************************)
(* Model of the sharp-shooter NFL odds collector: the snapshot window      *)
(* resolver, the game-day filter, the game-line and prop shapers of        *)
(* src/src/data_collector.py, the prop extraction of                       *)
(* src/src/odds_api_client.py and the Game_Lines writer of                 *)
(* src/src/sheets_writer.py.                                               *)
(*                                                                         *)
(* Python values are tagged tuples so that a number, a string and None     *)
(* can sit in the same field: <<"int", n>>, <<"str", s>>, <<"none">>.      *)
(* Python dicts are TLA+ records; a key the dict lacks is a field the      *)
(* record lacks.                                                           *)
(***************************************************************************)
EXTENDS Integers, Sequences, FiniteSets, TLC

VARIABLES
    now,              \* datetime.now(): [ord, hour, minute], local wall clock
    snapshot_num,     \* result of _determine_current_snapshot, or <<"unset">>
    games_data,       \* the raw game list handed to the operation under way
    idx,              \* number of list elements the running loop has consumed
    todays_games,     \* _filter_games_for_today: the list being built
    processed_games,  \* _process_games_for_snapshot: the list being built
    snap,             \* snapshot number the shaper / writer runs with
    raw_props,        \* API payload of one prop market request (list of outcomes)
    props_data,       \* result dict props_data (regular player props)
    anytime_td_props_data, \* result dict anytime_td_props_data
    sheet,            \* Game_Lines sheet: sequence of rows, row 1 the header
    pc,               \* position of the operation under way
    game_ids,         \* results of the _generate_game_id calls made so far
    feed,             \* response of the odds source to the games request
    force_snapshot,   \* snapshot argument of the run: <<"int", n>> or <<"none">>
    props_feed,       \* response of the odds source to the props requests
    result,           \* dict returned by the run, [returned |-> FALSE] before
    exc,              \* exception that escaped the run, "" when none did
    api_calls,        \* client calls made on the odds source, in order
    data_files,       \* data packages written to collected_data/
    overview,         \* Overview!B10:B15: status text of snapshots 1..6
    weekly_file,      \* the weekly spreadsheet exists
    store_calls,      \* create and write calls made on the spreadsheet store
    props_sheet,      \* Player_Props sheet: sequence of rows, row 1 the header
    td_sheet,         \* Anytime_TD_Props sheet: sequence of rows, row 1 the header
    time,             \* time.time(): seconds on the clock of the odds client
    requests_made,    \* OddsAPIClient.requests_made
    request_timestamps, \* OddsAPIClient.request_timestamps
    sent_at           \* history: the times at which session.get was called

vars == <<now, snapshot_num, games_data, idx, todays_games, processed_games,
          snap, raw_props, props_data, anytime_td_props_data, sheet, pc,
          game_ids, feed, force_snapshot, props_feed, result, exc, api_calls,
          data_files, overview, weekly_file, store_calls, props_sheet, td_sheet,
          time, requests_made, request_timestamps, sent_at>>

-----------------------------------------------------------------------------
(* Python values *)

I(n) == <<"int", n>>
S(s) == <<"str", s>>
None == <<"none">>
EMPTY == S("")
Unset == <<"unset">>

\* Python truthiness of a value: bool(v)
Truthy(v) ==
    CASE v[1] = "int" -> v[2] # 0
      [] v[1] = "str" -> v[2] # ""
      [] OTHER -> FALSE

\* dict.get(key, default)
Get(d, key, default) == IF key \in DOMAIN d THEN d[key] ELSE default

\* d[key] raises KeyError when the key is missing
HasKey(d, key) == key \in DOMAIN d

Min(a, b) == IF a < b THEN a ELSE b

\* s[:n]
Prefix(s, n) == SubSeq(s, 1, Min(n, Len(s)))

\* s[i] as a one-character string (1-based)
Ch(s, i) == SubSeq(s, i, i)

\* sub in s
RECURSIVE ContainsFrom(_, _, _)
ContainsFrom(s, sub, i) ==
    IF i + Len(sub) - 1 > Len(s) THEN FALSE
    ELSE IF SubSeq(s, i, i + Len(sub) - 1) = sub THEN TRUE
    ELSE ContainsFrom(s, sub, i + 1)

Contains(s, sub) == ContainsFrom(s, sub, 1)

\* s.replace(old, new) for a one-character old
RECURSIVE ReplaceChar(_, _, _)
ReplaceChar(s, old, new) ==
    IF s = "" THEN ""
    ELSE (IF Ch(s, 1) = old THEN new ELSE Ch(s, 1))
         \o ReplaceChar(SubSeq(s, 2, Len(s)), old, new)

LowerCase == "abcdefghijklmnopqrstuvwxyz"
UpperCase == "ABCDEFGHIJKLMNOPQRSTUVWXYZ"

UpperChar(c) ==
    IF \E k \in 1..26 : Ch(LowerCase, k) = c
    THEN Ch(UpperCase, CHOOSE k \in 1..26 : Ch(LowerCase, k) = c)
    ELSE c

\* s.upper()
RECURSIVE Upper(_)
Upper(s) == IF s = "" THEN "" ELSE UpperChar(Ch(s, 1)) \o Upper(SubSeq(s, 2, Len(s)))

\* s.endswith(suffix)
EndsWith(s, suffix) ==
    /\ Len(s) >= Len(suffix)
    /\ SubSeq(s, Len(s) - Len(suffix) + 1, Len(s)) = suffix

-----------------------------------------------------------------------------
(* Dates: datetime.fromisoformat, date(), weekday() *)

Digits == "0123456789"
IsDigit(c) == \E k \in 1..10 : Ch(Digits, k) = c
DigitVal(c) == (CHOOSE k \in 1..10 : Ch(Digits, k) = c) - 1

RECURSIVE AllDigits(_)
AllDigits(s) == IF s = "" THEN TRUE ELSE IsDigit(Ch(s, 1)) /\ AllDigits(SubSeq(s, 2, Len(s)))

RECURSIVE NumVal(_)
NumVal(s) == IF s = "" THEN 0 ELSE NumVal(SubSeq(s, 1, Len(s) - 1)) * 10 + DigitVal(Ch(s, Len(s)))

IsLeap(y) == (y % 4 = 0 /\ y % 100 # 0) \/ y % 400 = 0
DaysInMonth(y, m) ==
    IF m = 2 THEN (IF IsLeap(y) THEN 29 ELSE 28)
    ELSE IF m \in {4, 6, 9, 11} THEN 30 ELSE 31

RECURSIVE DaysBeforeMonth(_, _)
DaysBeforeMonth(y, m) == IF m = 1 THEN 0 ELSE DaysBeforeMonth(y, m - 1) + DaysInMonth(y, m - 1)

RECURSIVE DaysBeforeYear(_)
DaysBeforeYear(y) ==
    IF y <= 2025 THEN 0
    ELSE DaysBeforeYear(y - 1) + (IF IsLeap(y - 1) THEN 366 ELSE 365)

\* date.toordinal(), counted from 2025-01-01 (ordinal 0, a Wednesday)
Ordinal(y, m, d) == DaysBeforeYear(y) + DaysBeforeMonth(y, m) + d - 1

\* date.weekday(): 0 = Monday .. 6 = Sunday
Weekday(ord) == (ord + 2) % 7

DayNames == <<"monday", "tuesday", "wednesday", "thursday", "friday", "saturday", "sunday">>

\* now.strftime('%A').lower()
DayName(ord) == DayNames[Weekday(ord) + 1]

BadDate == [ok |-> FALSE]

\* the "YYYY-MM-DD" part of fromisoformat
ParseDate(s) ==
    IF /\ Len(s) = 10
       /\ AllDigits(SubSeq(s, 1, 4)) /\ Ch(s, 5) = "-"
       /\ AllDigits(SubSeq(s, 6, 7)) /\ Ch(s, 8) = "-"
       /\ AllDigits(SubSeq(s, 9, 10))
    THEN LET y == NumVal(SubSeq(s, 1, 4))
             m == NumVal(SubSeq(s, 6, 7))
             d == NumVal(SubSeq(s, 9, 10))
         IN IF y >= 2025 /\ m \in 1..12 /\ d \in 1..DaysInMonth(y, m)
            THEN [ok |-> TRUE, ord |-> Ordinal(y, m, d)]
            ELSE BadDate
    ELSE BadDate

\* the "HH:MM:SS" part of fromisoformat, with an optional "+HH:MM"/"-HH:MM" offset
ParseTime(s) ==
    LET hasTz == Len(s) = 14 /\ Ch(s, 9) \in {"+", "-"}
        t     == IF hasTz THEN SubSeq(s, 1, 8) ELSE s
        tz    == IF hasTz THEN SubSeq(s, 10, 14) ELSE "00:00"
    IN IF /\ Len(t) = 8
          /\ AllDigits(SubSeq(t, 1, 2)) /\ Ch(t, 3) = ":"
          /\ AllDigits(SubSeq(t, 4, 5)) /\ Ch(t, 6) = ":"
          /\ AllDigits(SubSeq(t, 7, 8))
          /\ NumVal(SubSeq(t, 1, 2)) < 24
          /\ NumVal(SubSeq(t, 4, 5)) < 60
          /\ NumVal(SubSeq(t, 7, 8)) < 60
          /\ AllDigits(SubSeq(tz, 1, 2)) /\ Ch(tz, 3) = ":" /\ AllDigits(SubSeq(tz, 4, 5))
          /\ NumVal(SubSeq(tz, 1, 2)) < 24 /\ NumVal(SubSeq(tz, 4, 5)) < 60
       THEN [ok |-> TRUE, hour |-> NumVal(SubSeq(t, 1, 2))]
       ELSE BadDate

\* datetime.fromisoformat(s): [ok, ord, hour] with ord/hour the .date() and .hour
\* of the parsed value, or [ok |-> FALSE] where Python raises ValueError.
\* Covers the forms "YYYY-MM-DD" and "YYYY-MM-DD?HH:MM:SS[+HH:MM]".
fromisoformat(s) ==
    IF Len(s) = 10
    THEN (IF ParseDate(s).ok THEN [ok |-> TRUE, ord |-> ParseDate(s).ord, hour |-> 0] ELSE BadDate)
    ELSE IF Len(s) \in {19, 25}
    THEN LET d == ParseDate(SubSeq(s, 1, 10))
             t == ParseTime(SubSeq(s, 12, Len(s)))
         IN IF d.ok /\ t.ok THEN [ok |-> TRUE, ord |-> d.ord, hour |-> t.hour] ELSE BadDate
    ELSE BadDate

-----------------------------------------------------------------------------
(* TimeWindowResolver: NFLDataCollector._determine_current_snapshot *)

\* variant: the Monday window opens one hour late (hour > 15)
determine_current_snapshot_mut(ord, hour) ==
    LET day_of_week == Weekday(ord)
    IN CASE day_of_week = 1 /\ hour >= 10 -> I(1)
         [] day_of_week = 3 /\ hour >= 15 -> I(2)
         [] day_of_week = 4 /\ hour >= 15 -> I(3)
         [] day_of_week = 5 /\ hour >= 10 -> I(4)
         [] day_of_week = 6 /\ hour >= 8 /\ hour < 13 -> I(5)
         [] day_of_week = 0 /\ hour > 15 -> I(6)
         [] OTHER ->
             IF day_of_week >= 1
             THEN CASE day_of_week = 1 -> I(1)
                    [] day_of_week = 2 -> I(2)
                    [] day_of_week = 3 -> I(2)
                    [] day_of_week = 4 -> I(3)
                    [] day_of_week = 5 -> I(4)
                    [] day_of_week = 6 -> I(5)
                    [] day_of_week = 0 -> I(6)
                    [] OTHER -> None
             ELSE None

\* variant: the fallback has no entry for Wednesday
determine_current_snapshot_wed(ord, hour) ==
    LET day_of_week == Weekday(ord)
    IN CASE day_of_week = 1 /\ hour >= 10 -> I(1)
         [] day_of_week = 3 /\ hour >= 15 -> I(2)
         [] day_of_week = 4 /\ hour >= 15 -> I(3)
         [] day_of_week = 5 /\ hour >= 10 -> I(4)
         [] day_of_week = 6 /\ hour >= 8 /\ hour < 13 -> I(5)
         [] day_of_week = 0 /\ hour >= 15 -> I(6)
         [] OTHER ->
             IF day_of_week >= 1
             THEN CASE day_of_week = 1 -> I(1)
                    [] day_of_week = 3 -> I(2)
                    [] day_of_week = 4 -> I(3)
                    [] day_of_week = 5 -> I(4)
                    [] day_of_week = 6 -> I(5)
                    [] day_of_week = 0 -> I(6)
                    [] OTHER -> None
             ELSE None

\* the window rules (lines 511-534), then the fallback (lines 539-553), then None
determine_current_snapshot(ord, hour) ==
    LET day_of_week == Weekday(ord)
    IN CASE day_of_week = 1 /\ hour >= 10 -> I(1)
         [] day_of_week = 3 /\ hour >= 15 -> I(2)
         [] day_of_week = 4 /\ hour >= 15 -> I(3)
         [] day_of_week = 5 /\ hour >= 10 -> I(4)
         [] day_of_week = 6 /\ hour >= 8 /\ hour < 13 -> I(5)
         [] day_of_week = 0 /\ hour >= 15 -> I(6)
         [] OTHER ->
             IF day_of_week >= 1
             THEN CASE day_of_week = 1 -> I(1)
                    [] day_of_week = 2 -> I(2)
                    [] day_of_week = 3 -> I(2)
                    [] day_of_week = 4 -> I(3)
                    [] day_of_week = 5 -> I(4)
                    [] day_of_week = 6 -> I(5)
                    [] day_of_week = 0 -> I(6)
                    [] OTHER -> None
             ELSE None

\* snapshot_type = 'opening' if snapshot_num == 1 else 'final'
snapshot_type(n) == IF n = 1 THEN "opening" ELSE "final"

-----------------------------------------------------------------------------
(* GameDayFilter: NFLDataCollector._filter_games_for_today *)

\* lines 462-470: the parse of one game's commence_time;
\* [ok |-> FALSE] where the game is skipped (empty, or ValueError caught)
ParseCommence(game) ==
    LET commence_time_str == Get(game, "commence_time", "")
    IN IF commence_time_str = "" THEN BadDate
       ELSE IF EndsWith(commence_time_str, "Z")
            THEN fromisoformat(ReplaceChar(commence_time_str, "Z", "+00:00"))
            ELSE fromisoformat(commence_time_str)

\* variant: the early-morning rollover is applied on every day of the week
KeepsToday_mut(game, today) ==
    LET p == ParseCommence(game)
    IN /\ p.ok
       /\ \/ p.ord = today
          \/ p.ord = today + 1 /\ p.hour < 6

\* lines 480-488: the game passes the date test (before the print and the append)
KeepsToday(game, today) ==
    LET p == ParseCommence(game)
    IN /\ p.ok
       /\ IF DayName(today) = "thursday"
          THEN p.ord = today \/ (p.ord = today + 1 /\ p.hour < 6)
          ELSE p.ord = today

\* lines 483 and 487: the print reads game['away_team'] and game['home_team'];
\* a missing key raises KeyError, which the except clause does not catch
PrintRaises(game) == ~HasKey(game, "away_team") \/ ~HasKey(game, "home_team")

\* lines 459-499: the loop over games_data from position i on, todays_games
\* so far in acc; the result is the list and whether the call raised
RECURSIVE filter_loop(_, _, _, _)
filter_loop(games, today, i, acc) ==
    IF i > Len(games) THEN [raised |-> FALSE, todays_games |-> acc]
    ELSE IF ~KeepsToday(games[i], today) THEN filter_loop(games, today, i + 1, acc)
    ELSE IF PrintRaises(games[i]) THEN [raised |-> TRUE, todays_games |-> acc]
    ELSE filter_loop(games, today, i + 1, Append(acc, games[i]))

filter_games_for_today(games, today) == filter_loop(games, today, 1, <<>>)

-----------------------------------------------------------------------------
(* OddsShaper: NFLDataCollector._generate_game_id, _process_games_for_snapshot *)

\* variant: the id is built from the date and the hour of commence_time
generate_game_id_mut(game) ==
    LET date == Prefix(Get(game, "commence_time", ""), 13)
        home == Upper(Prefix(ReplaceChar(Get(game, "home_team", ""), " ", ""), 4))
        away == Upper(Prefix(ReplaceChar(Get(game, "away_team", ""), " ", ""), 4))
    IN "NFL_2025_" \o date \o "_" \o away \o "_" \o home

\* lines 363-369
generate_game_id(game) ==
    LET date == Prefix(Get(game, "commence_time", ""), 10)
        home == Upper(Prefix(ReplaceChar(Get(game, "home_team", ""), " ", ""), 4))
        away == Upper(Prefix(ReplaceChar(Get(game, "away_team", ""), " ", ""), 4))
    IN "NFL_2025_" \o date \o "_" \o away \o "_" \o home

BaseFields == {"game_id", "date", "home_team", "away_team", "bookmaker"}

\* the nine per-snapshot columns, lines 231-250
SnapshotFields ==
    {"spread_line", "spread_home_odds", "spread_away_odds", "collected_date",
     "total_line", "total_over_odds", "total_under_odds", "ml_home", "ml_away"}

Field(kind, f) == kind \o "_" \o f

GameRowFields ==
    BaseFields \cup {Field("opening", f) : f \in SnapshotFields}
               \cup {Field("final", f) : f \in SnapshotFields}

\* variant: the snapshot columns are initialised to 0 instead of ''
NewGameSnapshot_mut(game, bookmaker_name) ==
    [f \in GameRowFields |->
        CASE f = "game_id"   -> S(generate_game_id(game))
          [] f = "date"      -> S(Get(game, "commence_time", ""))
          [] f = "home_team" -> S(Get(game, "home_team", ""))
          [] f = "away_team" -> S(Get(game, "away_team", ""))
          [] f = "bookmaker" -> S(bookmaker_name)
          [] OTHER           -> I(0)]

\* lines 208-213 and 226-250: base_game.copy() with the bookmaker and the
\* eighteen snapshot columns initialised to ''
NewGameSnapshot(game, bookmaker_name) ==
    [f \in GameRowFields |->
        CASE f = "game_id"   -> S(generate_game_id(game))
          [] f = "date"      -> S(Get(game, "commence_time", ""))
          [] f = "home_team" -> S(Get(game, "home_team", ""))
          [] f = "away_team" -> S(Get(game, "away_team", ""))
          [] f = "bookmaker" -> S(bookmaker_name)
          [] OTHER           -> EMPTY]

Raised(row) == [raised |-> TRUE, row |-> row]
Fine(row) == [raised |-> FALSE, row |-> row]

\* variant: the moneyline prices go to the other team's field
ShapeOutcome_swap(row, game, st, market_key, outcome) ==
    LET name  == Get(outcome, "name", "")
        point == Get(outcome, "point", EMPTY)
        price == Get(outcome, "price", EMPTY)
    IN CASE market_key = "spreads" ->
              IF ~HasKey(game, "home_team") THEN Raised(row)
              ELSE IF name = game.home_team
              THEN Fine([row EXCEPT ![Field(st, "spread_line")] = point,
                                    ![Field(st, "spread_home_odds")] = price])
              ELSE IF ~HasKey(game, "away_team") THEN Raised(row)
              ELSE IF name = game.away_team
              THEN Fine([row EXCEPT ![Field(st, "spread_away_odds")] = price])
              ELSE Fine(row)
         [] market_key = "totals" ->
              IF Contains(name, "Over")
              THEN Fine([row EXCEPT ![Field(st, "total_line")] = point,
                                    ![Field(st, "total_over_odds")] = price])
              ELSE IF Contains(name, "Under")
              THEN Fine([row EXCEPT ![Field(st, "total_under_odds")] = price])
              ELSE Fine(row)
         [] market_key = "h2h" ->
              IF ~HasKey(game, "home_team") THEN Raised(row)
              ELSE IF name = game.home_team
              THEN Fine([row EXCEPT ![Field(st, "ml_away")] = price])
              ELSE IF ~HasKey(game, "away_team") THEN Raised(row)
              ELSE IF name = game.away_team
              THEN Fine([row EXCEPT ![Field(st, "ml_home")] = price])
              ELSE Fine(row)
         [] OTHER -> Fine(row)

\* lines 262-271 (spreads) / 277-286 (totals) / 290-297 (h2h): one outcome.
\* game['home_team'] and game['away_team'] raise KeyError on a missing key.
ShapeOutcome(row, game, st, market_key, outcome) ==
    LET name  == Get(outcome, "name", "")
        point == Get(outcome, "point", EMPTY)
        price == Get(outcome, "price", EMPTY)
    IN CASE market_key = "spreads" ->
              IF ~HasKey(game, "home_team") THEN Raised(row)
              ELSE IF name = game.home_team
              THEN Fine([row EXCEPT ![Field(st, "spread_line")] = point,
                                    ![Field(st, "spread_home_odds")] = price])
              ELSE IF ~HasKey(game, "away_team") THEN Raised(row)
              ELSE IF name = game.away_team
              THEN Fine([row EXCEPT ![Field(st, "spread_away_odds")] = price])
              ELSE Fine(row)
         [] market_key = "totals" ->
              IF Contains(name, "Over")
              THEN Fine([row EXCEPT ![Field(st, "total_line")] = point,
                                    ![Field(st, "total_over_odds")] = price])
              ELSE IF Contains(name, "Under")
              THEN Fine([row EXCEPT ![Field(st, "total_under_odds")] = price])
              ELSE Fine(row)
         [] market_key = "h2h" ->
              IF ~HasKey(game, "home_team") THEN Raised(row)
              ELSE IF name = game.home_team
              THEN Fine([row EXCEPT ![Field(st, "ml_home")] = price])
              ELSE IF ~HasKey(game, "away_team") THEN Raised(row)
              ELSE IF name = game.away_team
              THEN Fine([row EXCEPT ![Field(st, "ml_away")] = price])
              ELSE Fine(row)
         [] OTHER -> Fine(row)

\* the for-loops over outcomes at lines 262, 277 and 290
RECURSIVE ShapeOutcomes(_, _, _, _, _, _)
ShapeOutcomes(row, game, st, market_key, outcomes, i) ==
    IF i > Len(outcomes) THEN Fine(row)
    ELSE LET r == ShapeOutcome(row, game, st, market_key, outcomes[i])
         IN IF r.raised THEN r
            ELSE ShapeOutcomes(r.row, game, st, market_key, outcomes, i + 1)

\* lines 256-297: one market of a bookmaker; only the spreads branch
\* stores the collection timestamp (line 273)
ShapeMarket(row, game, st, market, timestamp) ==
    LET market_key == Get(market, "key", "")
        outcomes   == Get(market, "outcomes", <<>>)
    IN IF market_key \in {"spreads", "totals", "h2h"} /\ outcomes # <<>>
       THEN LET r == ShapeOutcomes(row, game, st, market_key, outcomes, 1)
            IN IF r.raised \/ market_key # "spreads" THEN r
               ELSE Fine([r.row EXCEPT ![Field(st, "collected_date")] = timestamp])
       ELSE Fine(row)

RECURSIVE ShapeMarkets(_, _, _, _, _, _)
ShapeMarkets(row, game, st, markets, timestamp, i) ==
    IF i > Len(markets) THEN Fine(row)
    ELSE LET r == ShapeMarket(row, game, st, markets[i], timestamp)
         IN IF r.raised THEN r
            ELSE ShapeMarkets(r.row, game, st, markets, timestamp, i + 1)

\* lines 219-299: the bookmakers of one game from position j on
RECURSIVE ShapeBookmakers(_, _, _, _, _, _)
ShapeBookmakers(acc, game, snapshot, timestamp, bookmakers, j) ==
    IF j > Len(bookmakers) THEN [raised |-> FALSE, rows |-> acc]
    ELSE IF Get(bookmakers[j], "markets", <<>>) = <<>>
    THEN ShapeBookmakers(acc, game, snapshot, timestamp, bookmakers, j + 1)
    ELSE LET r == ShapeMarkets(NewGameSnapshot(game, Get(bookmakers[j], "title", "")),
                               game, snapshot_type(snapshot), bookmakers[j].markets,
                               timestamp, 1)
         IN IF r.raised THEN [raised |-> TRUE, rows |-> acc]
            ELSE ShapeBookmakers(Append(acc, r.row), game, snapshot, timestamp,
                                 bookmakers, j + 1)

\* lines 204-301: the games from position i on; the result is the list built
\* and whether the call raised (KeyError) before it could return it
RECURSIVE ShapeGames(_, _, _, _, _)
ShapeGames(acc, games, snapshot, timestamp, i) ==
    IF i > Len(games) THEN [raised |-> FALSE, rows |-> acc]
    ELSE IF Get(games[i], "bookmakers", <<>>) = <<>>
    THEN ShapeGames(acc, games, snapshot, timestamp, i + 1)
    ELSE LET r == ShapeBookmakers(acc, games[i], snapshot, timestamp,
                                  games[i].bookmakers, 1)
         IN IF r.raised THEN r
            ELSE ShapeGames(r.rows, games, snapshot, timestamp, i + 1)

process_games_for_snapshot(games, snapshot, timestamp) ==
    ShapeGames(<<>>, games, snapshot, timestamp, 1)

-----------------------------------------------------------------------------
(* SheetStore, Game_Lines tab: NFLSheetsWriter._write_game_lines and callees.  *)
(* The sheet is the sequence of its rows, row 1 the header; a data row is the  *)
(* sequence of its 23 cells A..W.  Every Sheets API call succeeds.             *)

\* the order of the nine columns of one snapshot kind, lines 1004-1022
ColumnOrder ==
    <<"spread_line", "spread_home_odds", "spread_away_odds", "collected_date",
      "total_line", "total_over_odds", "total_under_odds", "ml_home", "ml_away">>

\* lines 994-1023
game_to_sheet_row(game) ==
    <<game["game_id"], game["date"], game["home_team"], game["away_team"], game["bookmaker"]>>
    \o [k \in 1..Len(ColumnOrder) |-> game[Field("opening", ColumnOrder[k])]]
    \o [k \in 1..Len(ColumnOrder) |-> game[Field("final", ColumnOrder[k])]]

\* variant: the Final ranges start one column to the left (N, R, U)
get_game_snapshot_columns_shifted(snapshot) ==
    IF snapshot = 1
    THEN <<[first |-> 6, type |-> "spread"], [first |-> 10, type |-> "total"],
           [first |-> 13, type |-> "moneyline"]>>
    ELSE <<[first |-> 14, type |-> "spread"], [first |-> 18, type |-> "total"],
           [first |-> 21, type |-> "moneyline"]>>

\* lines 759-787: the column ranges (as column numbers, A = 1) per range type
get_game_snapshot_columns(snapshot) ==
    IF snapshot = 1
    THEN <<[first |-> 6, type |-> "spread"], [first |-> 10, type |-> "total"],
           [first |-> 13, type |-> "moneyline"]>>
    ELSE <<[first |-> 15, type |-> "spread"], [first |-> 19, type |-> "total"],
           [first |-> 22, type |-> "moneyline"]>>

\* lines 789-812
extract_game_snapshot_values(game, snapshot, range_type) ==
    LET snapshot_prefix == IF snapshot = 1 THEN "opening" ELSE "final"
    IN CASE range_type = "spread" ->
              <<game[Field(snapshot_prefix, "spread_line")],
                game[Field(snapshot_prefix, "spread_home_odds")],
                game[Field(snapshot_prefix, "spread_away_odds")],
                game[Field(snapshot_prefix, "collected_date")]>>
         [] range_type = "total" ->
              <<game[Field(snapshot_prefix, "total_line")],
                game[Field(snapshot_prefix, "total_over_odds")],
                game[Field(snapshot_prefix, "total_under_odds")]>>
         [] range_type = "moneyline" ->
              <<game[Field(snapshot_prefix, "ml_home")],
                game[Field(snapshot_prefix, "ml_away")]>>
         [] OTHER -> <<>>

\* any(val for val in snapshot_values)
AnyTruthy(values) == \E k \in 1..Len(values) : Truthy(values[k])

\* variant: a range is written whenever it has values, falsy or not
HasData_mut(values) == values # <<>>

\* line 952: snapshot_values and any(val for val in snapshot_values)
HasData(values) == values # <<>> /\ AnyTruthy(values)

\* values().update / batchUpdate of one range of one row, valueInputOption RAW
UpdateRange(sh, row_num, first, values) ==
    [sh EXCEPT ![row_num] =
        [c \in 1..Len(sh[row_num]) |->
            IF c >= first /\ c < first + Len(values) THEN values[c - first + 1]
            ELSE sh[row_num][c]]]

\* lines 945-958: the requests of one existing game, applied range by range
RECURSIVE UpdateGameRanges(_, _, _, _, _, _)
UpdateGameRanges(sh, game, row_num, snapshot, ranges, k) ==
    IF k > Len(ranges) THEN sh
    ELSE LET values == extract_game_snapshot_values(game, snapshot, ranges[k].type)
         IN UpdateGameRanges(
                IF HasData(values) THEN UpdateRange(sh, row_num, ranges[k].first, values) ELSE sh,
                game, row_num, snapshot, ranges, k + 1)

\* lines 937-992: existing_games is a list of [game, row_num]
RECURSIVE batch_update_games(_, _, _, _)
batch_update_games(sh, existing_games, snapshot, i) ==
    IF i > Len(existing_games) THEN sh
    ELSE batch_update_games(
             UpdateGameRanges(sh, existing_games[i].game, existing_games[i].row_num,
                              snapshot, get_game_snapshot_columns(snapshot), 1),
             existing_games, snapshot, i + 1)

\* lines 493-500: game_row_map, the last data row holding the game_id
InRowMap(sh, game_id) == \E r \in 2..Len(sh) : sh[r] # <<>> /\ Truthy(sh[r][1]) /\ sh[r][1] = game_id
RowOf(sh, game_id) ==
    CHOOSE r \in 2..Len(sh) :
        /\ sh[r] # <<>> /\ sh[r][1] = game_id
        /\ \A q \in 2..Len(sh) : (sh[q] # <<>> /\ sh[q][1] = game_id) => q <= r

\* lines 814-854 with start_row = len(existing_data) + 1: the rows are appended
batch_add_rows(sh, rows) == sh \o rows

\* lines 487-593
update_game_lines_snapshots(sh, games, snapshot) ==
    LET IsExisting(g) == Truthy(g["game_id"]) /\ InRowMap(sh, g["game_id"])
        IsNew(g) == Truthy(g["game_id"]) /\ ~InRowMap(sh, g["game_id"])
        ex == SelectSeq(games, IsExisting)
        existing_games == [k \in 1..Len(ex) |-> [game |-> ex[k], row_num |-> RowOf(sh, ex[k]["game_id"])]]
        nw == SelectSeq(games, IsNew)
        new_sheet_rows == [k \in 1..Len(nw) |-> game_to_sheet_row(nw[k])]
    IN batch_add_rows(batch_update_games(sh, existing_games, snapshot, 1), new_sheet_rows)

\* lines 454-485
write_game_lines_snapshot_1(sh, games) ==
    sh \o [k \in 1..Len(games) |-> game_to_sheet_row(games[k])]

\* lines 124-145 and 74-79
write_game_lines(sh, games, snapshot) ==
    IF games = <<>> THEN sh
    ELSE IF snapshot = 1 THEN write_game_lines_snapshot_1(sh, games)
    ELSE update_game_lines_snapshots(sh, games, snapshot)

-----------------------------------------------------------------------------
(* Bounds and input domains *)

\* number of consecutive local dates the clock ranges over, from 2025-09-01
NumDays == 14

FirstDay == Ordinal(2025, 9, 1)

Clock == [ord : FirstDay..(FirstDay + NumDays - 1), hour : 0..23, minute : {0, 59}]

\* longest raw game list handed to the filter and to the shaper
MaxGames == 2

SeqsUpTo(pool, n) == UNION {[1..k -> pool] : k \in 0..n}

\* commence_time strings of the feed: Thursday afternoon, the Thursday-night
\* game after UTC midnight, Friday 06:00, Sunday afternoon and the
\* Sunday-night game after UTC midnight (all UTC), one without the Z suffix,
\* an empty one and one that is no timestamp
FilterTimes ==
    {"2025-09-04T17:00:00Z", "2025-09-05T00:30:00Z", "2025-09-05T06:00:00Z",
     "2025-09-07T17:00:00Z", "2025-09-08T00:20:00Z", "2025-09-05T05:00:00", "", "TBD"}

\* raw games as the filter sees them: with both team names, without
\* home_team, and without commence_time
FilterPool ==
    {[id |-> "evt", commence_time |-> t, home_team |-> "Kansas City Chiefs",
      away_team |-> "Baltimore Ravens"] : t \in FilterTimes}
    \cup {[id |-> "evt", commence_time |-> t, away_team |-> "Baltimore Ravens"] : t \in FilterTimes}
    \cup {[id |-> "evt", home_team |-> "Kansas City Chiefs", away_team |-> "Baltimore Ravens"]}

\* markets of one bookmaker, with outcome names taken from the game
SpreadsMarket(home, away) ==
    [key |-> "spreads",
     outcomes |-> <<[name |-> home, price |-> I(-110), point |-> I(-3)],
                    [name |-> away, price |-> I(-105), point |-> I(3)]>>]

TotalsMarket ==
    [key |-> "totals",
     outcomes |-> <<[name |-> "Over", price |-> I(-108), point |-> I(47)],
                    [name |-> "Under", price |-> I(-112), point |-> I(47)]>>]

H2hMarket(home, away, home_price, away_price) ==
    [key |-> "h2h",
     outcomes |-> <<[name |-> home, price |-> I(home_price)],
                    [name |-> away, price |-> I(away_price)]>>]

\* the bookmakers value of a raw game: no bookmaker, one with all three
\* markets, one more with a moneyline of 0 on both sides, a bookmaker
\* without a markets key next to one with totals only, and a bookmaker with
\* an empty markets list next to one with a moneyline of 0 for the home team
BookmakerLists(home, away) ==
    { <<>>,
      <<[title |-> "DraftKings",
         markets |-> <<SpreadsMarket(home, away), TotalsMarket, H2hMarket(home, away, -150, 130)>>]>>,
      <<[title |-> "DraftKings",
         markets |-> <<SpreadsMarket(home, away), TotalsMarket, H2hMarket(home, away, -150, 130)>>],
        [title |-> "FanDuel", markets |-> <<H2hMarket(home, away, 0, 0)>>]>>,
      <<[title |-> "DraftKings"],
        [title |-> "FanDuel", markets |-> <<TotalsMarket>>]>>,
      <<[title |-> "FanDuel", markets |-> <<>>],
        [title |-> "DraftKings", markets |-> <<H2hMarket(home, away, 0, -120)>>]>> }

\* the fixtures of the feed: two Sunday games whose team names share their
\* first four letters, and a Thursday game
Fixtures ==
    { [id |-> "e1", commence_time |-> "2025-09-07T17:00:00Z",
       home_team |-> "Los Angeles Rams", away_team |-> "New York Jets"],
      [id |-> "e2", commence_time |-> "2025-09-07T20:25:00Z",
       home_team |-> "Los Angeles Chargers", away_team |-> "New York Giants"],
      [id |-> "e3", commence_time |-> "2025-09-05T00:30:00Z",
       home_team |-> "Kansas City Chiefs", away_team |-> "Baltimore Ravens"] }

\* raw games as the shaper sees them: each fixture with each bookmakers
\* value and without a bookmakers key, and a record without home_team
ShaperPool ==
    UNION { { [id |-> g.id, commence_time |-> g.commence_time, home_team |-> g.home_team,
               away_team |-> g.away_team, bookmakers |-> b] :
                  b \in BookmakerLists(g.home_team, g.away_team) } \cup {g} : g \in Fixtures }
    \cup { [id |-> "e4", commence_time |-> "2025-09-08T00:20:00Z",
            away_team |-> "Dallas Cowboys", bookmakers |-> b] :
               b \in BookmakerLists("Philadelphia Eagles", "Dallas Cowboys") }

\* the feed lists every event once
DistinctIds(games) ==
    \A i, j \in 1..Len(games) : i # j => games[i].id # games[j].id

\* collection_timestamp of the run (line 59)
Timestamp == S("2025-09-07T14:00:00+00:00")

\* number of collection results written to one weekly spreadsheet
MaxWrites == 2

\* raw games of the collection results written to the sheet: the Thursday
\* and the first Sunday fixture, each with one bookmaker that quotes a
\* moneyline of 0 on both sides, of 0 on the home side, or all three markets
SheetBookmakers(home, away) ==
    { <<[title |-> "FanDuel", markets |-> <<H2hMarket(home, away, 0, 0)>>]>>,
      <<[title |-> "DraftKings", markets |-> <<H2hMarket(home, away, 0, -120)>>]>>,
      <<[title |-> "DraftKings",
         markets |-> <<SpreadsMarket(home, away), TotalsMarket, H2hMarket(home, away, -150, 130)>>]>> }

SheetPool ==
    UNION { { [id |-> g.id, commence_time |-> g.commence_time, home_team |-> g.home_team,
               away_team |-> g.away_team, bookmakers |-> b] :
                  b \in SheetBookmakers(g.home_team, g.away_team) } :
            g \in {f \in Fixtures : f.id \in {"e1", "e3"}} }

\* the header row of the Game_Lines sheet
EmptySheet == << <<S("Game_ID")>> >>

\* the variables of the other operations, and their values at rest
runvars == <<feed, force_snapshot, props_feed, result, exc, api_calls, data_files>>

storevars == <<overview, weekly_file, store_calls, props_sheet, td_sheet>>

\* the variables of the odds client's rate limiter, and their values after
\* OddsAPIClient.__init__ (odds_api_client.py lines 31-34)
ratevars == <<time, requests_made, request_timestamps, sent_at>>

ClientIdle ==
    /\ time = 0
    /\ requests_made = 0
    /\ request_timestamps = <<>>
    /\ sent_at = <<>>

aux == <<game_ids, runvars, storevars>>

NoResult == [returned |-> FALSE]

NoFeed == [ok |-> FALSE]

NotCollected == [n \in 1..6 |-> "Not Collected"]

RunIdle ==
    /\ feed = NoFeed
    /\ force_snapshot = None
    /\ props_feed = "none"
    /\ result = NoResult
    /\ exc = ""
    /\ api_calls = <<>>
    /\ data_files = <<>>

StoreIdle ==
    /\ overview = NotCollected
    /\ weekly_file = FALSE
    /\ store_calls = <<>>
    /\ props_sheet = << <<S("Game_ID")>> >>
    /\ td_sheet = << <<S("Game_ID")>> >>

AuxIdle ==
    /\ game_ids = <<>>
    /\ RunIdle
    /\ StoreIdle

\* values of the variables an operation does not use
Idle ==
    /\ snapshot_num = Unset
    /\ games_data = <<>>
    /\ idx = 0
    /\ todays_games = <<>>
    /\ processed_games = <<>>
    /\ snap = 0
    /\ raw_props = <<>>
    /\ props_data = <<>>
    /\ anytime_td_props_data = <<>>
    /\ sheet = EmptySheet
    /\ AuxIdle

-----------------------------------------------------------------------------
(* Specification of the resolver: a wall clock and the resolver call *)

InitResolver ==
    /\ now \in Clock
    /\ pc = "idle"
    /\ ClientIdle
    /\ Idle

\* snapshot_num = self._determine_current_snapshot()
DetermineCurrentSnapshot ==
    /\ pc = "idle"
    /\ snapshot_num' = determine_current_snapshot(now.ord, now.hour)
    /\ pc' = "resolved"
    /\ UNCHANGED <<ratevars, now, games_data, idx, todays_games, processed_games, snap,
                   raw_props, props_data, anytime_td_props_data, sheet, aux>>

\* the caller has read the result; the next call sees a later clock
ClockAdvances ==
    /\ pc = "resolved"
    /\ now' \in {c \in Clock : \/ c.ord > now.ord
                               \/ c.ord = now.ord /\ c.hour > now.hour
                               \/ c.ord = now.ord /\ c.hour = now.hour /\ c.minute > now.minute}
    /\ snapshot_num' = Unset
    /\ pc' = "idle"
    /\ UNCHANGED <<ratevars, games_data, idx, todays_games, processed_games, snap,
                   raw_props, props_data, anytime_td_props_data, sheet, aux>>

NextResolver == DetermineCurrentSnapshot \/ ClockAdvances

SpecResolver == InitResolver /\ [][NextResolver]_vars

\* C1: in every resolved state the result is the snapshot of the window the
\* local (weekday, hour) lies in: Tue >= 10 -> 1, Thu >= 15 -> 2, Fri >= 15 -> 3,
\* Sat >= 10 -> 4, Sun 8..12 -> 5, Mon >= 15 -> 6; every clock with the same
\* (weekday, hour) resolves to the same result; snapshot 1 is shaped as
\* opening and snapshots 2..6 as final.
C1_WindowTable ==
    pc = "resolved" =>
        LET d == Weekday(now.ord)
            h == now.hour
        IN /\ (d = 1 /\ h >= 10 => snapshot_num = I(1))
           /\ (d = 3 /\ h >= 15 => snapshot_num = I(2))
           /\ (d = 4 /\ h >= 15 => snapshot_num = I(3))
           /\ (d = 5 /\ h >= 10 => snapshot_num = I(4))
           /\ (d = 6 /\ h >= 8 /\ h < 13 => snapshot_num = I(5))
           /\ (d = 0 /\ h >= 15 => snapshot_num = I(6))
           /\ \A c \in Clock :
                 Weekday(c.ord) = d /\ c.hour = h
                     => determine_current_snapshot(c.ord, c.hour) = snapshot_num
           /\ (snapshot_num = I(1) => snapshot_type(snapshot_num[2]) = "opening")
           /\ (snapshot_num # None /\ snapshot_num # I(1)
                 => snapshot_num[2] \in 2..6 /\ snapshot_type(snapshot_num[2]) = "final")

\* Thursday 16:00 resolved to snapshot 2, a final snapshot
C1_Witness ==
    /\ pc = "resolved"
    /\ Weekday(now.ord) = 3 /\ now.hour = 16 /\ now.minute = 0
    /\ snapshot_num = I(2)
    /\ snapshot_type(2) = "final"

\* the windows of the collection schedule
InWindow(d, h) ==
    \/ d = 1 /\ h >= 10
    \/ d = 3 /\ h >= 15
    \/ d = 4 /\ h >= 15
    \/ d = 5 /\ h >= 10
    \/ d = 6 /\ h >= 8 /\ h < 13
    \/ d = 0 /\ h >= 15

\* the fallback table of the schedule, indexed by weekday() + 1 (Monday first)
FallbackByDay == <<6, 1, 2, 2, 3, 4, 5>>

\* C2: whenever no window rule matches, the result is the fallback snapshot
\* of the weekday: Tue 1, Wed 2, Thu 2, Fri 3, Sat 4, Sun 5, Mon 6.
C2_FallbackByDay ==
    pc = "resolved" /\ ~InWindow(Weekday(now.ord), now.hour)
        => snapshot_num = I(FallbackByDay[Weekday(now.ord) + 1])

-----------------------------------------------------------------------------
(* Specification of the game-day filter: one call on a raw game list *)

InitFilter ==
    /\ now \in {c \in Clock : c.hour = 16 /\ c.minute = 0}
    /\ pc = "idle"
    /\ ClientIdle
    /\ snapshot_num = Unset
    /\ games_data \in SeqsUpTo(FilterPool, MaxGames)
    /\ idx = 0
    /\ todays_games = <<>>
    /\ processed_games = <<>>
    /\ snap = 0
    /\ raw_props = <<>>
    /\ props_data = <<>>
    /\ anytime_td_props_data = <<>>
    /\ sheet = EmptySheet
    /\ AuxIdle

\* games_data = self._filter_games_for_today(all_games_data)
FilterGamesForToday ==
    /\ pc = "idle"
    /\ LET r == filter_games_for_today(games_data, now.ord)
       IN /\ todays_games' = r.todays_games
          /\ pc' = IF r.raised THEN "filter_raised" ELSE "filter_returned"
    /\ UNCHANGED <<ratevars, now, snapshot_num, games_data, idx, processed_games, snap,
                   raw_props, props_data, anytime_td_props_data, sheet, aux>>

NextFilter == FilterGamesForToday

SpecFilter == InitFilter /\ [][NextFilter]_vars

InSeq(x, seq) == \E k \in 1..Len(seq) : seq[k] = x

FilterEnded == pc \in {"filter_returned", "filter_raised"}

\* a game whose commence_time parses to the UTC date today + 1, hour < 6
IsRollover(game, today) ==
    /\ ParseCommence(game).ok
    /\ ParseCommence(game).ord = today + 1
    /\ ParseCommence(game).hour < 6

ParsedToday(g) == ParseCommence(g).ok /\ ParseCommence(g).ord = now.ord

\* C4: on every local day other than Thursday the call returns, and returns
\* exactly the input games whose commence_time parses to the date today, in
\* input order; games without a parsable commence_time are left out.
C4_ExactlyTodaysGames ==
    FilterEnded /\ DayName(now.ord) # "thursday"
        => /\ pc = "filter_returned"
           /\ todays_games = SelectSeq(games_data, ParsedToday)

-----------------------------------------------------------------------------
(* Specification of the odds shaper: one call on a raw game list *)

InitShaper ==
    /\ now \in {c \in Clock : c.ord = FirstDay /\ c.hour = 16 /\ c.minute = 0}
    /\ pc = "idle"
    /\ ClientIdle
    /\ snapshot_num = Unset
    /\ games_data \in {g \in SeqsUpTo(ShaperPool, MaxGames) : DistinctIds(g)}
    /\ idx = 0
    /\ todays_games = <<>>
    /\ processed_games = <<>>
    /\ snap \in 1..6
    /\ raw_props = <<>>
    /\ props_data = <<>>
    /\ anytime_td_props_data = <<>>
    /\ sheet = EmptySheet
    /\ AuxIdle

\* processed_games = self._process_games_for_snapshot(games_data, snapshot_num, ts)
ProcessGamesForSnapshot ==
    /\ pc = "idle"
    /\ LET r == process_games_for_snapshot(games_data, snap, Timestamp)
       IN /\ processed_games' = r.rows
          /\ pc' = IF r.raised THEN "shape_raised" ELSE "shape_returned"
    /\ UNCHANGED <<ratevars, now, snapshot_num, games_data, idx, todays_games, snap,
                   raw_props, props_data, anytime_td_props_data, sheet, aux>>

NextShaper == ProcessGamesForSnapshot

SpecShaper == InitShaper /\ [][NextShaper]_vars

ShapeEnded == pc \in {"shape_returned", "shape_raised"}

\* C5: the output holds no two rows with the same (game_id, bookmaker).
C5_UniqueGameBookmaker ==
    pc = "shape_returned" =>
        \A i, j \in 1..Len(processed_games) :
            i # j => <<processed_games[i].game_id, processed_games[i].bookmaker>>
                     # <<processed_games[j].game_id, processed_games[j].bookmaker>>

\* the (game, bookmaker) entries of the input that have markets, in input order
RECURSIVE Entries(_, _)
Entries(games, i) ==
    IF i > Len(games) THEN <<>>
    ELSE LET bks == Get(games[i], "bookmakers", <<>>)
             withMarkets(b) == Get(b, "markets", <<>>) # <<>>
             sel == SelectSeq(bks, withMarkets)
         IN [k \in 1..Len(sel) |-> [game |-> games[i], bookmaker |-> sel[k]]]
            \o Entries(games, i + 1)

\* C6: the call returns one row for each (game, bookmaker) entry whose game
\* has bookmakers and whose bookmaker has markets, in input order, and no
\* other row; records without bookmakers or markets are skipped and the
\* rest of the batch is shaped.
C6_OneRowPerEntry ==
    ShapeEnded =>
        LET e == Entries(games_data, 1)
        IN /\ pc = "shape_returned"
           /\ Len(processed_games) = Len(e)
           /\ \A k \in 1..Len(e) :
                 /\ processed_games[k].date = S(Get(e[k].game, "commence_time", ""))
                 /\ processed_games[k].home_team = S(Get(e[k].game, "home_team", ""))
                 /\ processed_games[k].away_team = S(Get(e[k].game, "away_team", ""))
                 /\ processed_games[k].bookmaker = S(Get(e[k].bookmaker, "title", ""))

HasMarket(bookmaker, key) ==
    \E m \in 1..Len(bookmaker.markets) : Get(bookmaker.markets[m], "key", "") = key

MarketFields(key) ==
    CASE key = "spreads" -> {"spread_line", "spread_home_odds", "spread_away_odds"}
      [] key = "totals"  -> {"total_line", "total_over_odds", "total_under_odds"}
      [] key = "h2h"     -> {"ml_home", "ml_away"}

\* C7: every emitted row (the k-th row is the row of the k-th entry) has the
\* nine final_* fields unset when the snapshot is 1 and the nine opening_*
\* fields unset when it is 2..6, and the fields of a market its bookmaker
\* does not offer are unset ('', not 0) for the snapshot's own kind too.
C7_OtherKindUnset ==
    ShapeEnded =>
        \A k \in 1..Len(processed_games) :
            LET row == processed_games[k]
                e   == Entries(games_data, 1)[k]
            IN /\ (snap = 1 => \A f \in SnapshotFields : row[Field("final", f)] = EMPTY)
               /\ (snap \in 2..6 => \A f \in SnapshotFields : row[Field("opening", f)] = EMPTY)
               /\ \A key \in {"spreads", "totals", "h2h"} :
                     ~HasMarket(e.bookmaker, key)
                         => \A f \in MarketFields(key) :
                               /\ row[Field("opening", f)] = EMPTY
                               /\ row[Field("final", f)] = EMPTY

\* a final run returned the row of a bookmaker that offers a moneyline only:
\* final_ml_away is set, the spread fields and the opening fields are unset
C7_Witness ==
    /\ pc = "shape_returned"
    /\ snap \in 2..6
    /\ \E k \in 1..Len(processed_games) :
          LET row == processed_games[k]
              e   == Entries(games_data, 1)[k]
          IN /\ row["final_ml_away"] = I(-120)
             /\ ~HasMarket(e.bookmaker, "spreads")
             /\ row["final_spread_line"] = EMPTY
             /\ row["opening_ml_away"] = EMPTY

-----------------------------------------------------------------------------
(* Specification of the Game_Lines writer: collection results, each shaped  *)
(* from a raw game list, are written one after the other to a fresh sheet   *)

InitSheet ==
    /\ now \in {c \in Clock : c.ord = FirstDay /\ c.hour = 16 /\ c.minute = 0}
    /\ pc = "idle"
    /\ ClientIdle
    /\ snapshot_num = Unset
    /\ games_data = <<>>
    /\ idx = 0
    /\ todays_games = <<>>
    /\ processed_games = <<>>
    /\ snap = 0
    /\ raw_props = <<>>
    /\ props_data = <<>>
    /\ anytime_td_props_data = <<>>
    /\ sheet = EmptySheet
    /\ AuxIdle

\* writer.write_collection_data(collection_result['data_file']), game lines part
WriteGameLines ==
    /\ idx < MaxWrites
    /\ \E snapshot \in 1..3, raw \in {g \in SeqsUpTo(SheetPool, MaxGames) : DistinctIds(g)} :
          LET r == process_games_for_snapshot(raw, snapshot, Timestamp)
          IN /\ ~r.raised
             /\ games_data' = raw
             /\ snap' = snapshot
             /\ processed_games' = r.rows
             /\ sheet' = write_game_lines(sheet, r.rows, snapshot)
    /\ idx' = idx + 1
    /\ pc' = "written"
    /\ UNCHANGED <<ratevars, now, snapshot_num, todays_games, raw_props, props_data,
                   anytime_td_props_data, aux>>

NextSheet == WriteGameLines

SpecSheet == InitSheet /\ [][NextSheet]_vars

\* column number of a snapshot field in a Game_Lines row
ColumnOf(kind, f) ==
    (IF kind = "opening" THEN 5 ELSE 14) + (CHOOSE k \in 1..Len(ColumnOrder) : ColumnOrder[k] = f)

\* C8: the shaped row holds 0 wherever the raw h2h outcome of the home or
\* the away team has price 0; and after a write, every row of the written
\* result whose moneyline for the home or the away team is 0 has a
\* Game_Lines row of its game that holds 0 in that moneyline cell, whether
\* the row was added or an existing row was updated.
C8_NoSilentZero ==
    pc = "written" =>
        /\ \A k \in 1..Len(processed_games) :
              LET e == Entries(games_data, 1)[k]
              IN \A m \in 1..Len(e.bookmaker.markets) :
                    LET mk == e.bookmaker.markets[m]
                    IN mk.key = "h2h" =>
                         \A o \in 1..Len(mk.outcomes) :
                            mk.outcomes[o].price = I(0) =>
                               /\ (mk.outcomes[o].name = e.game.home_team =>
                                     processed_games[k][Field(snapshot_type(snap), "ml_home")] = I(0))
                               /\ (mk.outcomes[o].name = e.game.away_team =>
                                     processed_games[k][Field(snapshot_type(snap), "ml_away")] = I(0))
        /\ \A k \in 1..Len(processed_games) :
              \A f \in {"ml_home", "ml_away"} :
                 processed_games[k][Field(snapshot_type(snap), f)] = I(0) =>
                    \E r \in 2..Len(sheet) :
                       /\ sheet[r][1] = processed_games[k]["game_id"]
                       /\ sheet[r][ColumnOf(snapshot_type(snap), f)] = I(0)

-----------------------------------------------------------------------------
(* Player props: odds_api_client.py, _process_player_props and the shaping *)
(* of its result in data_collector.py                                      *)

\* s.replace(old, new) for a non-empty old
RECURSIVE Replace(_, _, _)
Replace(s, old, new) ==
    IF Len(s) < Len(old) THEN s
    ELSE IF SubSeq(s, 1, Len(old)) = old
         THEN new \o Replace(SubSeq(s, Len(old) + 1, Len(s)), old, new)
         ELSE Ch(s, 1) \o Replace(SubSeq(s, 2, Len(s)), old, new)

\* s.strip(), the whitespace being blanks
RECURSIVE Strip(_)
Strip(s) ==
    IF s = "" THEN ""
    ELSE IF Ch(s, 1) = " " THEN Strip(SubSeq(s, 2, Len(s)))
    ELSE IF Ch(s, Len(s)) = " " THEN Strip(SubSeq(s, 1, Len(s) - 1))
    ELSE s

LowerChar(c) ==
    IF \E k \in 1..26 : Ch(UpperCase, k) = c
    THEN Ch(LowerCase, CHOOSE k \in 1..26 : Ch(UpperCase, k) = c)
    ELSE c

\* s.lower()
RECURSIVE Lower(_)
Lower(s) == IF s = "" THEN "" ELSE LowerChar(Ch(s, 1)) \o Lower(SubSeq(s, 2, Len(s)))

\* ' '.join(s.split(' ')[:-1]): s up to its last blank
RECURSIVE AllButLastWord(_)
AllButLastWord(s) ==
    IF s = "" THEN ""
    ELSE IF Ch(s, Len(s)) = " " THEN SubSeq(s, 1, Len(s) - 1)
    ELSE AllButLastWord(SubSeq(s, 1, Len(s) - 1))

\* x or d
OrElse(x, d) == IF Truthy(x) THEN x ELSE d

\* get_player_props, lines 73-80
prop_markets ==
    <<"player_pass_yds", "player_pass_tds", "player_rush_yds", "player_receptions",
      "player_reception_yds", "player_anytime_td">>

market_display_name(market_key) ==
    CASE market_key = "player_pass_yds" -> "Passing Yards"
      [] market_key = "player_pass_tds" -> "Passing TDs"
      [] market_key = "player_rush_yds" -> "Rushing Yards"
      [] market_key = "player_receptions" -> "Receptions"
      [] market_key = "player_reception_yds" -> "Receiving Yards"
      [] market_key = "player_anytime_td" -> "Anytime TD"
      [] OTHER -> market_key

\* lines 189-197: the player name of an outcome, "" when none can be extracted
player_name_of(outcome) ==
    IF HasKey(outcome, "description")
    THEN Strip(Replace(Replace(outcome.description, " Over", ""), " Under", ""))
    ELSE IF HasKey(outcome, "name") /\ Contains(outcome.name, " ")
         THEN AllButLastWord(outcome.name)
         ELSE ""

\* lines 203-208
line_type_of(outcome) ==
    IF Contains(Get(outcome, "name", ""), "Over") THEN "Over"
    ELSE IF Contains(Get(outcome, "name", ""), "Under") THEN "Under"
    ELSE "Unknown"

\* lines 210-222
PropOf(game, bookmaker, market_type, outcome) ==
    [game_id |-> Get(game, "id", ""),
     commence_time |-> Get(game, "commence_time", ""),
     home_team |-> Get(game, "home_team", ""),
     away_team |-> Get(game, "away_team", ""),
     bookmaker |-> Get(bookmaker, "title", ""),
     market_type |-> market_display_name(market_type),
     player_name |-> player_name_of(outcome),
     line_type |-> line_type_of(outcome),
     line_value |-> Get(outcome, "point", None),
     odds |-> Get(outcome, "price", None)]

\* lines 185-223: the outcomes of one market from position i on
RECURSIVE PropsOfOutcomes(_, _, _, _, _)
PropsOfOutcomes(game, bookmaker, market_type, outcomes, i) ==
    IF i > Len(outcomes) THEN <<>>
    ELSE (IF player_name_of(outcomes[i]) = "" THEN <<>>
          ELSE <<PropOf(game, bookmaker, market_type, outcomes[i])>>)
         \o PropsOfOutcomes(game, bookmaker, market_type, outcomes, i + 1)

\* lines 176-184: the markets of one bookmaker from position i on
RECURSIVE PropsOfMarkets(_, _, _, _, _)
PropsOfMarkets(game, bookmaker, market_type, markets, i) ==
    IF i > Len(markets) THEN <<>>
    ELSE (IF ~HasKey(markets[i], "key") \/ markets[i].key # market_type THEN <<>>
          ELSE PropsOfOutcomes(game, bookmaker, market_type,
                               Get(markets[i], "outcomes", <<>>), 1))
         \o PropsOfMarkets(game, bookmaker, market_type, markets, i + 1)

\* lines 168-174: the bookmakers of one game from position i on
RECURSIVE PropsOfBookmakers(_, _, _, _)
PropsOfBookmakers(game, market_type, bookmakers, i) ==
    IF i > Len(bookmakers) THEN <<>>
    ELSE PropsOfMarkets(game, bookmakers[i], market_type,
                        Get(bookmakers[i], "markets", <<>>), 1)
         \o PropsOfBookmakers(game, market_type, bookmakers, i + 1)

\* lines 152-225: props_data from position i on
RECURSIVE process_player_props_from(_, _, _)
process_player_props_from(props_data_in, market_type, i) ==
    IF i > Len(props_data_in) THEN <<>>
    ELSE PropsOfBookmakers(props_data_in[i], market_type,
                           Get(props_data_in[i], "bookmakers", <<>>), 1)
         \o process_player_props_from(props_data_in, market_type, i + 1)

process_player_props(props_data_in, market_type) ==
    process_player_props_from(props_data_in, market_type, 1)

\* lines 107-143: the response to the request of one market is the event
\* with its bookmakers; a dict response is wrapped into a one-element list
fetch_single_prop_market(event, market) == process_player_props(<<event>>, market)

\* lines 82-105: the markets of prop_markets from position i on, one request
\* each, the results extended in that order (an empty result stands for None)
RECURSIVE get_player_props_from(_, _)
get_player_props_from(event, i) ==
    IF i > Len(prop_markets) THEN <<>>
    ELSE fetch_single_prop_market(event, prop_markets[i]) \o get_player_props_from(event, i + 1)

get_player_props(event) == get_player_props_from(event, 1)

\* data_collector.py, lines 371-380
extract_position_from_market(market_type) ==
    IF Contains(Lower(market_type), "pass") THEN "QB"
    ELSE IF Contains(Lower(market_type), "rush") THEN "RB/QB"
    ELSE IF Contains(Lower(market_type), "receiv") THEN "WR/TE/RB"
    ELSE "Unknown"

\* lines 382-385
determine_player_team(prop, home_team, away_team) == "TBD"

\* lines 387-391
should_collect_props_for_snapshot(snapshot) == snapshot > 1

\* lines 393-404
separate_anytime_td_props(props) ==
    [regular_props |-> SelectSeq(props, LAMBDA prop : prop.market_type # "Anytime TD"),
     anytime_td_props |-> SelectSeq(props, LAMBDA prop : prop.market_type = "Anytime TD")]

\* position of a key in a dict kept as a sequence of entries in insertion
\* order, 0 when the key is not in it
KeyIndex(dict, key) ==
    IF \E k \in 1..Len(dict) : dict[k].key = key
    THEN CHOOSE k \in 1..Len(dict) : dict[k].key = key
    ELSE 0

\* lines 311-325: the entry made for a key seen for the first time
NewPropGroup(key, prop) ==
    [key |-> key,
     game_id |-> prop.game_id,
     player_name |-> prop.player_name,
     position |-> extract_position_from_market(prop.market_type),
     team |-> determine_player_team(prop, prop.home_team, prop.away_team),
     market_type |-> prop.market_type,
     bookmaker |-> prop.bookmaker,
     data_source |-> "odds_api",
     over_line |-> None,
     over_odds |-> None,
     under_line |-> None,
     under_odds |-> None]

\* lines 327-333
AddLineData(group, prop) ==
    IF prop.line_type = "Over"
    THEN [group EXCEPT !.over_line = prop.line_value, !.over_odds = prop.odds]
    ELSE IF prop.line_type = "Under"
    THEN [group EXCEPT !.under_line = prop.line_value, !.under_odds = prop.odds]
    ELSE group

\* lines 310-333: the loop over props_data from position i on
RECURSIVE GroupProps(_, _, _)
GroupProps(props, i, props_by_player_market) ==
    IF i > Len(props) THEN props_by_player_market
    ELSE LET prop == props[i]
             key == prop.player_name \o "_" \o prop.market_type \o "_" \o prop.bookmaker
             at == KeyIndex(props_by_player_market, key)
             dict == IF at = 0
                     THEN Append(props_by_player_market, NewPropGroup(key, prop))
                     ELSE props_by_player_market
             pos == IF at = 0 THEN Len(dict) ELSE at
         IN GroupProps(props, i + 1, [dict EXCEPT ![pos] = AddLineData(dict[pos], prop)])

\* lines 337-357
PropSnapshot(prop_data, timestamp) ==
    [game_id |-> S(prop_data.game_id),
     player_name |-> S(prop_data.player_name),
     position |-> S(prop_data.position),
     team |-> S(prop_data.team),
     market_type |-> S(prop_data.market_type),
     bookmaker |-> S(prop_data.bookmaker),
     data_source |-> S(prop_data.data_source),
     over_line |-> OrElse(prop_data.over_line, EMPTY),
     over_odds |-> OrElse(prop_data.over_odds, EMPTY),
     under_line |-> OrElse(prop_data.under_line, EMPTY),
     under_odds |-> OrElse(prop_data.under_odds, EMPTY),
     collected_date |-> timestamp,
     season_over_rate |-> S("N/A"),
     season_attempts |-> S("N/A"),
     vs_defense_rate |-> S("N/A"),
     recent_form_3g |-> S("N/A"),
     home_away_split |-> S("N/A")]

\* lines 303-361
process_props_for_snapshot(props, snapshot, timestamp) ==
    LET props_by_player_market == GroupProps(props, 1, <<>>)
    IN [k \in 1..Len(props_by_player_market) |->
           PropSnapshot(props_by_player_market[k], timestamp)]

\* lines 416-423
NewTdGroup(key, prop) ==
    [key |-> key,
     game_id |-> prop.game_id,
     player_name |-> prop.player_name,
     team |-> determine_player_team(prop, prop.home_team, prop.away_team),
     bookmaker |-> prop.bookmaker,
     data_source |-> "odds_api",
     odds |-> None]

\* lines 413-427: the loop over td_props from position i on
RECURSIVE GroupTdProps(_, _, _)
GroupTdProps(td_props, i, props_by_player_bookmaker) ==
    IF i > Len(td_props) THEN props_by_player_bookmaker
    ELSE LET prop == td_props[i]
             key == prop.player_name \o "_" \o prop.bookmaker
             at == KeyIndex(props_by_player_bookmaker, key)
             dict == IF at = 0
                     THEN Append(props_by_player_bookmaker, NewTdGroup(key, prop))
                     ELSE props_by_player_bookmaker
             pos == IF at = 0 THEN Len(dict) ELSE at
         IN GroupTdProps(td_props, i + 1,
                         IF prop.line_type = "Over"
                         THEN [dict EXCEPT ![pos].odds = prop.odds]
                         ELSE dict)

\* lines 430-444
TdProp(prop_data, timestamp) ==
    [game_id |-> S(prop_data.game_id),
     player_name |-> S(prop_data.player_name),
     team |-> S(prop_data.team),
     bookmaker |-> S(prop_data.bookmaker),
     data_source |-> S(prop_data.data_source),
     anytime_td_odds |-> OrElse(prop_data.odds, EMPTY),
     collected_date |-> timestamp,
     season_tds |-> S("N/A"),
     red_zone_targets |-> S("N/A"),
     goal_line_carries |-> S("N/A"),
     recent_td_rate |-> S("N/A")]

\* lines 406-448
process_anytime_td_props_for_snapshot(td_props, snapshot, timestamp) ==
    LET props_by_player_bookmaker == GroupTdProps(td_props, 1, <<>>)
    IN [k \in 1..Len(props_by_player_bookmaker) |->
           TdProp(props_by_player_bookmaker[k], timestamp)]

-----------------------------------------------------------------------------
(* Specification of the props collection of one game: the event odds of the *)
(* game are fetched market by market, separated and shaped                  *)

MaxOutcomes == 3

\* outcomes of the feed: an Over and an Under of a passing line, the Under
\* once more with the side repeated in its description, an Over with line
\* and price 0, an Over that carries the player in its name, an outcome
\* without a player, and the anytime-touchdown outcomes with a price, with
\* price 0 and of the other side
AllenOver == [name |-> "Over", description |-> "Josh Allen", point |-> I(250), price |-> I(-110)]
AllenUnder == [name |-> "Under", description |-> "Josh Allen", point |-> I(250), price |-> I(-115)]
AllenUnderLong ==
    [name |-> "Under", description |-> "Josh Allen Under", point |-> I(250), price |-> I(-115)]
AllenOverZero == [name |-> "Over", description |-> "Josh Allen", point |-> I(0), price |-> I(0)]
CookOver == [name |-> "James Cook Over", point |-> I(60), price |-> I(-110)]
Unnamed == [name |-> "Over", price |-> I(-110)]
AllenTdOver == [name |-> "Over", description |-> "Josh Allen", price |-> I(450)]
AllenTdZero == [name |-> "Over", description |-> "Josh Allen", price |-> I(0)]
AllenTdUnder == [name |-> "Under", description |-> "Josh Allen", price |-> I(-600)]

\* an outcome with the bookmaker and the market it is listed under
OutcomePool ==
    { [title |-> "DraftKings", key |-> "player_pass_yds", outcome |-> AllenOver],
      [title |-> "DraftKings", key |-> "player_pass_yds", outcome |-> AllenUnder],
      [title |-> "DraftKings", key |-> "player_pass_yds", outcome |-> AllenUnderLong],
      [title |-> "DraftKings", key |-> "player_pass_yds", outcome |-> AllenOverZero],
      [title |-> "DraftKings", key |-> "player_pass_yds", outcome |-> Unnamed],
      [title |-> "FanDuel", key |-> "player_pass_yds", outcome |-> AllenOver],
      [title |-> "DraftKings", key |-> "player_rush_yds", outcome |-> CookOver],
      [title |-> "DraftKings", key |-> "player_anytime_td", outcome |-> AllenTdOver],
      [title |-> "DraftKings", key |-> "player_anytime_td", outcome |-> AllenTdZero],
      [title |-> "DraftKings", key |-> "player_anytime_td", outcome |-> AllenTdUnder],
      [title |-> "FanDuel", key |-> "player_anytime_td", outcome |-> AllenTdOver] }

BookmakerTitles == <<"DraftKings", "FanDuel">>

OutcomesListed(t, title, key) ==
    LET sel == SelectSeq(t, LAMBDA e : e.title = title /\ e.key = key)
    IN [j \in 1..Len(sel) |-> sel[j].outcome]

MarketsListed(t, title) ==
    LET keys == SelectSeq(prop_markets,
                          LAMBDA k : \E i \in 1..Len(t) : t[i].title = title /\ t[i].key = k)
    IN [j \in 1..Len(keys) |-> [key |-> keys[j], outcomes |-> OutcomesListed(t, title, keys[j])]]

\* the event odds of the game that list the outcomes of t, in the order of t
EventOf(t) ==
    LET f == CHOOSE g \in Fixtures : g.id = "e1"
        titles == SelectSeq(BookmakerTitles, LAMBDA b : \E i \in 1..Len(t) : t[i].title = b)
    IN [id |-> f.id, commence_time |-> f.commence_time, home_team |-> f.home_team,
        away_team |-> f.away_team,
        bookmakers |-> [j \in 1..Len(titles) |->
                           [title |-> titles[j], markets |-> MarketsListed(t, titles[j])]]]

InitProps ==
    /\ now \in {c \in Clock : c.ord = FirstDay + 6 /\ c.hour = 9 /\ c.minute = 0}
    /\ pc = "idle"
    /\ ClientIdle
    /\ snapshot_num = Unset
    /\ games_data = <<>>
    /\ idx = 0
    /\ todays_games = <<>>
    /\ processed_games = <<>>
    /\ snap \in 1..2
    /\ raw_props \in {EventOf(t) : t \in SeqsUpTo(OutcomePool, MaxOutcomes)}
    /\ props_data = <<>>
    /\ anytime_td_props_data = <<>>
    /\ sheet = EmptySheet
    /\ AuxIdle

\* collect_weekly_data, lines 103-151, for one game of props_games
CollectProps ==
    /\ pc = "idle"
    /\ should_collect_props_for_snapshot(snap)
    /\ LET props == get_player_props(raw_props)
           sep == separate_anytime_td_props(props)
       IN /\ props_data' =
                IF sep.regular_props # <<>>
                THEN props_data \o process_props_for_snapshot(sep.regular_props, snap, Timestamp)
                ELSE props_data
          /\ anytime_td_props_data' =
                IF sep.anytime_td_props # <<>>
                THEN anytime_td_props_data
                     \o process_anytime_td_props_for_snapshot(sep.anytime_td_props, snap, Timestamp)
                ELSE anytime_td_props_data
    /\ pc' = "props_collected"
    /\ UNCHANGED <<ratevars, now, snapshot_num, games_data, idx, todays_games, processed_games,
                   snap, raw_props, sheet, aux>>

\* collect_weekly_data, lines 152-154: no props on the Opening snapshot
SkipProps ==
    /\ pc = "idle"
    /\ ~should_collect_props_for_snapshot(snap)
    /\ pc' = "props_skipped"
    /\ UNCHANGED <<ratevars, now, snapshot_num, games_data, idx, todays_games, processed_games,
                   snap, raw_props, props_data, anytime_td_props_data, sheet, aux>>

NextProps == CollectProps \/ SkipProps

SpecProps == InitProps /\ [][NextProps]_vars

\* the list handed to _process_props_for_snapshot
RegularProps == separate_anytime_td_props(get_player_props(raw_props)).regular_props

PropKeyOf(prop) == <<prop.player_name, prop.market_type, prop.bookmaker>>

RowKeyOf(row) == <<row.player_name[2], row.market_type[2], row.bookmaker[2]>>

\* C9: when the props of one (player, market, bookmaker) are an Over outcome
\* and an Under outcome, each with a line and a price and each possibly
\* repeated, the result has exactly one row of that key, both sides of the
\* row are populated, and shaping any reordering of the list gives the same
\* row for the key.
C9_IdempotentGrouping ==
    pc = "props_collected" =>
        \A i \in 1..Len(RegularProps) :
           LET key == PropKeyOf(RegularProps[i])
               side(t) == { <<RegularProps[j].line_value, RegularProps[j].odds>> :
                              j \in {j \in 1..Len(RegularProps) :
                                        /\ PropKeyOf(RegularProps[j]) = key
                                        /\ RegularProps[j].line_type = t} }
               rowsOf(out) == {out[k] : k \in {k \in 1..Len(out) : RowKeyOf(out[k]) = key}}
           IN ( /\ Cardinality(side("Over")) = 1
                /\ Cardinality(side("Under")) = 1
                /\ \A v \in side("Over") \cup side("Under") : v[1] # None /\ v[2] # None ) =>
                 /\ Cardinality({k \in 1..Len(props_data) : RowKeyOf(props_data[k]) = key}) = 1
                 /\ \A row \in rowsOf(props_data) :
                       /\ row.over_line # EMPTY /\ row.over_odds # EMPTY
                       /\ row.under_line # EMPTY /\ row.under_odds # EMPTY
                 /\ \A perm \in Permutations(1..Len(RegularProps)) :
                       rowsOf(process_props_for_snapshot(
                                 [j \in 1..Len(RegularProps) |-> RegularProps[perm[j]]],
                                 snap, Timestamp)) = rowsOf(props_data)

\* the outcomes of the event listed under the market key by a bookmaker
\* of the title
ListedOutcomes(event, title, key) ==
    { event.bookmakers[b].markets[m].outcomes[o] :
        <<b, m, o>> \in { x \in (1..Len(event.bookmakers)) \X (1..Len(prop_markets))
                                    \X (1..MaxOutcomes + 1) :
                            /\ event.bookmakers[x[1]].title = title
                            /\ x[2] <= Len(event.bookmakers[x[1]].markets)
                            /\ event.bookmakers[x[1]].markets[x[2]].key = key
                            /\ x[3] <= Len(event.bookmakers[x[1]].markets[x[2]].outcomes) } }

\* C10: no row of props_data is of the anytime-touchdown market; every Over
\* outcome of the player_anytime_td market that names its player and
\* carries a price, the price being the same on every repetition, has a row
\* of its player and bookmaker in anytime_td_props_data whose odds field is
\* that price; and every row of anytime_td_props_data comes from an outcome
\* of the player_anytime_td market.
C10_AnytimeTdIsolation ==
    pc = "props_collected" =>
        /\ \A k \in 1..Len(props_data) : props_data[k].market_type # S("Anytime TD")
        /\ \A j \in 1..Len(BookmakerTitles) :
              LET yes == { o \in ListedOutcomes(raw_props, BookmakerTitles[j], "player_anytime_td") :
                              /\ HasKey(o, "description") /\ HasKey(o, "price")
                              /\ Get(o, "name", "") = "Over" }
              IN \A o \in yes :
                    (\A q \in yes : q.description = o.description => q.price = o.price) =>
                       \E k \in 1..Len(anytime_td_props_data) :
                          /\ anytime_td_props_data[k].bookmaker = S(BookmakerTitles[j])
                          /\ anytime_td_props_data[k].player_name = S(o.description)
                          /\ anytime_td_props_data[k].anytime_td_odds = o.price
        /\ \A k \in 1..Len(anytime_td_props_data) :
              \E o \in ListedOutcomes(raw_props, anytime_td_props_data[k].bookmaker[2],
                                      "player_anytime_td") :
                 player_name_of(o) = anytime_td_props_data[k].player_name[2]

\* the (line_value, odds) pairs of the props of a key on one side
SideValues(props, key, line_type) ==
    { <<props[j].line_value, props[j].odds>> :
         j \in {j \in 1..Len(props) : PropKeyOf(props[j]) = key /\ props[j].line_type = line_type} }

\* C11: in every row of props_data, over_line and over_odds are unset (the
\* empty string) exactly when the row's group holds no Over outcome, and
\* otherwise are the line_value and odds of an Over outcome of the group,
\* a 0 staying 0; the same for under_line, under_odds and Under outcomes.
C11_SidesUnchanged ==
    pc = "props_collected" =>
        \A k \in 1..Len(props_data) :
           LET row == props_data[k]
               overs == SideValues(RegularProps, RowKeyOf(row), "Over")
               unders == SideValues(RegularProps, RowKeyOf(row), "Under")
           IN /\ (overs = {}) <=> (row.over_line = EMPTY /\ row.over_odds = EMPTY)
              /\ overs # {} => <<row.over_line, row.over_odds>> \in overs
              /\ (unders = {}) <=> (row.under_line = EMPTY /\ row.under_odds = EMPTY)
              /\ unders # {} => <<row.under_line, row.under_odds>> \in unders

-----------------------------------------------------------------------------
(* Specification of _generate_game_id: two games of the feed, and the calls *)
(* of _generate_game_id on them                                             *)

MaxCalls == 2

GameIdTeams == {"New York Jets", "New York Giants", "Los Angeles Rams", "Los Angeles Chargers"}

GameIdTimes == {"2025-09-07T17:00:00Z", "2025-09-07T20:25:00Z", "2025-09-14T17:00:00Z"}

GameIdPool ==
    { [id |-> e, commence_time |-> t, home_team |-> h, away_team |-> a] :
         <<e, t, h, a>> \in { x \in {"e1", "e2"} \X GameIdTimes \X GameIdTeams \X GameIdTeams :
                                x[3] # x[4] } }

InitGameId ==
    /\ now \in {c \in Clock : c.ord = FirstDay + 1 /\ c.hour = 16 /\ c.minute = 0}
    /\ pc = "idle"
    /\ ClientIdle
    /\ snapshot_num = Unset
    /\ games_data \in [1..2 -> GameIdPool]
    /\ idx = 0
    /\ todays_games = <<>>
    /\ processed_games = <<>>
    /\ snap = 0
    /\ raw_props = <<>>
    /\ props_data = <<>>
    /\ anytime_td_props_data = <<>>
    /\ sheet = EmptySheet
    /\ game_ids = <<>>
    /\ RunIdle
    /\ StoreIdle

\* self._generate_game_id(game) for each of the two games
GenerateGameId ==
    /\ idx < MaxCalls
    /\ game_ids' = Append(game_ids, [k \in 1..2 |-> generate_game_id(games_data[k])])
    /\ idx' = idx + 1
    /\ pc' = "generated"
    /\ UNCHANGED <<ratevars, now, snapshot_num, games_data, todays_games, processed_games, snap,
                   raw_props, props_data, anytime_td_props_data, sheet, runvars, storevars>>

NextGameId == GenerateGameId

SpecGameId == InitGameId /\ [][NextGameId]_vars

\* the date portion of commence_time
DatePortion(game) == SubSeq(game.commence_time, 1, 10)

SameTeams(g, h) == g.home_team = h.home_team /\ g.away_team = h.away_team

\* C12: every call of _generate_game_id on a game gives the id the first
\* call gave; two games with the same date portion of commence_time, the
\* same home team and the same away team get the same id, whatever their
\* other fields; and the same home and away teams on different dates get
\* different ids.
C12_GameIdDeterminism ==
    \A c \in 1..Len(game_ids) :
       /\ game_ids[c] = game_ids[1]
       /\ (SameTeams(games_data[1], games_data[2])
             /\ DatePortion(games_data[1]) = DatePortion(games_data[2]))
          => game_ids[c][1] = game_ids[c][2]
       /\ (SameTeams(games_data[1], games_data[2])
             /\ DatePortion(games_data[1]) # DatePortion(games_data[2]))
          => game_ids[c][1] # game_ids[c][2]

\* the ids were generated twice for the same teams on two dates
C12_Witness ==
    /\ Len(game_ids) = 2
    /\ SameTeams(games_data[1], games_data[2])
    /\ DatePortion(games_data[1]) # DatePortion(games_data[2])
    /\ game_ids[2][1] # game_ids[2][2]

\* C13: two games on the same date that got the same game_id have the same
\* home team and the same away team.
C13_CollisionFree ==
    \A c \in 1..Len(game_ids) :
       (DatePortion(games_data[1]) = DatePortion(games_data[2])
          /\ game_ids[c][1] = game_ids[c][2])
       => SameTeams(games_data[1], games_data[2])

-----------------------------------------------------------------------------
(* NFLDataCollector.collect_weekly_data: one collection run.  A run ends    *)
(* with a returned dict or with an exception that escapes it.               *)

\* Config.SNAPSHOT_SCHEDULE (line 25): the descriptions of snapshots 1..6
snapshot_schedule ==
    <<"Opening Lines", "Thursday Night Football", "Friday Games", "Saturday Games",
      "Sunday Games", "Monday Night Football">>

\* lines 559-581
get_next_collection_time(ord, hour) ==
    LET day_of_week == Weekday(ord)
    IN IF day_of_week < 1 \/ (day_of_week = 1 /\ hour < 10)
       THEN "Next Tuesday 10 AM+ (Snapshot 1 - Opening Lines)"
       ELSE IF day_of_week < 3 \/ (day_of_week = 3 /\ hour < 15)
       THEN "Next Thursday 3 PM+ (Snapshot 2 - Thursday Night Football)"
       ELSE IF day_of_week < 4 \/ (day_of_week = 4 /\ hour < 15)
       THEN "Next Friday 3 PM+ (Snapshot 3 - Friday Games if any)"
       ELSE IF day_of_week < 5 \/ (day_of_week = 5 /\ hour < 10)
       THEN "Next Saturday 10 AM+ (Snapshot 4 - Saturday Games)"
       ELSE IF day_of_week < 6 \/ (day_of_week = 6 /\ hour < 8)
       THEN "Next Sunday 8 AM-1 PM (Snapshot 5 - Sunday Games)"
       ELSE IF day_of_week = 6 /\ hour >= 13
       THEN "Next Monday 3 PM+ (Snapshot 6 - Monday Night Football)"
       ELSE IF day_of_week = 0 /\ hour < 15
       THEN "Next Monday 3 PM+ (Snapshot 6 - Monday Night Football)"
       ELSE "Next Tuesday 10 AM+ (Snapshot 1 - New Week Opening Lines)"

\* odds_api_client.py line 43, `def get_nfl_games(self)`: the method takes no
\* argument besides self, so a call that passes one raises TypeError before
\* any request is made; otherwise it returns the games of the response, or
\* None when the request failed
get_nfl_games(args, response) ==
    IF Len(args) # 0 THEN [raised |-> "TypeError", ok |-> FALSE, games |-> <<>>]
    ELSE IF response.ok THEN [raised |-> "", ok |-> TRUE, games |-> response.games]
    ELSE [raised |-> "", ok |-> FALSE, games |-> <<>>]

\* the outcome of a run: the returned dict or the escaped exception, the
\* client calls made and the data package written
Returned(dict, calls) == [exc |-> "", result |-> dict, api_calls |-> calls, data_files |-> <<>>]

Escaped(name, calls) == [exc |-> name, result |-> NoResult, api_calls |-> calls, data_files |-> <<>>]

\* lines 83-85: the listing of the first five games of the week raises when a
\* game lacks a key it reads or has a commence_time that does not parse
ListingRaises(all_games_data) ==
    \E k \in 1..Min(5, Len(all_games_data)) :
       LET game == all_games_data[k]
       IN \/ ~HasKey(game, "commence_time")
          \/ ~fromisoformat(Replace(game.commence_time, "Z", "+00:00")).ok
          \/ ~HasKey(game, "away_team")
          \/ ~HasKey(game, "home_team")

\* lines 121-127: the reads made on a game before its props are requested
PropsGameRaises(game) ==
    \/ ~HasKey(game, "id")
    \/ ~HasKey(game, "home_team")
    \/ ~HasKey(game, "away_team")
    \/ ~HasKey(game, "commence_time")
    \/ ~fromisoformat(Replace(game.commence_time, "Z", "+00:00")).ok

\* the response to the props requests of one game: the event odds of the
\* game, or no response at all
PropsResponse(response, game_id) ==
    IF response = "none" THEN [ok |-> FALSE]
    ELSE [ok |-> TRUE,
          event |-> [EventOf(<<[title |-> "DraftKings", key |-> "player_pass_yds", outcome |-> AllenOver],
                               [title |-> "DraftKings", key |-> "player_anytime_td",
                                outcome |-> AllenTdOver]>>) EXCEPT !.id = game_id]]

\* lines 131-147: the props of one game are separated, shaped and added to
\* all_props and anytime_td_props
AddProps(acc, game_id, sep, snapshot) ==
    [raised |-> "",
     calls |-> Append(acc.calls, <<"get_player_props", game_id>>),
     all_props |-> IF sep.regular_props # <<>>
                   THEN acc.all_props
                        \o process_props_for_snapshot(sep.regular_props, snapshot, Timestamp)
                   ELSE acc.all_props,
     anytime_td_props |->
        IF sep.anytime_td_props # <<>>
        THEN acc.anytime_td_props
             \o process_anytime_td_props_for_snapshot(sep.anytime_td_props, snapshot, Timestamp)
        ELSE acc.anytime_td_props]

\* line 129: props = self.api_client.get_player_props(game_id), [] for None
PropsOfGame(r) == IF r.ok THEN get_player_props(r.event) ELSE <<>>

\* lines 121-151: the loop over props_games from position i on; acc holds
\* all_props, anytime_td_props and the client calls made so far
RECURSIVE CollectPropsLoop(_, _, _, _, _)
CollectPropsLoop(props_games, snapshot, response, i, acc) ==
    IF i > Len(props_games) THEN acc
    ELSE IF PropsGameRaises(props_games[i]) THEN [acc EXCEPT !.raised = "KeyError"]
    ELSE CollectPropsLoop(props_games, snapshot, response, i + 1,
            AddProps(acc, props_games[i].id,
                     separate_anytime_td_props(
                         PropsOfGame(PropsResponse(response, props_games[i].id))),
                     snapshot))

\* lines 157-168
DataPackage(week_number, snapshot, rows, all_props, anytime_td_props) ==
    [week |-> week_number,
     snapshot |-> snapshot,
     snapshot_description |-> snapshot_schedule[snapshot],
     collection_timestamp |-> Timestamp,
     games_count |-> Len(rows),
     props_count |-> Len(all_props),
     anytime_td_props_count |-> Len(anytime_td_props),
     games_data |-> rows,
     props_data |-> all_props,
     anytime_td_props_data |-> anytime_td_props]

\* lines 170-198: the data package is written to its file and the result of
\* the run is returned
Persist(data_package, calls) ==
    [exc |-> "",
     result |-> [returned |-> TRUE,
                 success |-> TRUE,
                 week |-> data_package.week,
                 snapshot |-> data_package.snapshot,
                 snapshot_description |-> data_package.snapshot_description,
                 collection_timestamp |-> data_package.collection_timestamp,
                 games_collected |-> data_package.games_count,
                 props_collected |-> data_package.props_count,
                 anytime_td_props_collected |-> data_package.anytime_td_props_count,
                 data_file |-> data_package],
     api_calls |-> calls,
     data_files |-> <<data_package>>]

\* lines 95-198, shaped being the result of the shaping and loop that of
\* the props collection
AfterShaping(week_number, snapshot, shaped, loop, calls) ==
    IF shaped.raised THEN Escaped("KeyError", calls)
    ELSE IF loop.raised # "" THEN Escaped(loop.raised, loop.calls)
    ELSE Persist(DataPackage(week_number, snapshot, shaped.rows, loop.all_props,
                             loop.anytime_td_props), loop.calls)

NoProps(calls) == [raised |-> "", calls |-> calls, all_props |-> <<>>, anytime_td_props |-> <<>>]

\* lines 95-198: the run from the shaping on, games_data being the games
\* to collect and calls the client calls made so far
ShapeAndPersist(week_number, snapshot, games_data_in, response, calls) ==
    AfterShaping(week_number, snapshot,
                 process_games_for_snapshot(games_data_in, snapshot, Timestamp),
                 IF should_collect_props_for_snapshot(snapshot)
                 THEN CollectPropsLoop(games_data_in, snapshot, response, 1, NoProps(calls))
                 ELSE NoProps(calls),
                 calls)

\* lines 65-198, fetched being the result of the games fetch and filtered
\* that of the today-filter
AfterFetch(week_number, snapshot, fetched, filtered, props_response, calls) ==
    IF fetched.raised # "" THEN Escaped(fetched.raised, <<>>)
    ELSE IF ~fetched.ok \/ fetched.games = <<>>
    THEN Returned([returned |-> TRUE, success |-> FALSE,
                   error |-> "Failed to retrieve game lines data",
                   snapshot |-> snapshot], calls)
    ELSE IF snapshot # 1 /\ filtered.raised THEN Escaped("KeyError", calls)
    ELSE IF snapshot # 1 /\ filtered.todays_games = <<>>
    THEN (IF ListingRaises(fetched.games) THEN Escaped("KeyError", calls)
          ELSE Returned([returned |-> TRUE, success |-> FALSE,
                         error |-> "No games scheduled for today - cannot collect final lines",
                         snapshot |-> snapshot], calls))
    ELSE ShapeAndPersist(week_number, snapshot,
                         IF snapshot = 1 THEN fetched.games ELSE filtered.todays_games,
                         props_response, calls)

\* lines 46-63, snapshot_num being the forced or the resolved snapshot
AfterResolve(week_number, snapshot_num_, clock, response, props_response) ==
    IF ~Truthy(snapshot_num_)
    THEN Returned([returned |-> TRUE, success |-> FALSE,
                   error |-> "Not a scheduled collection time",
                   next_collection |-> get_next_collection_time(clock.ord, clock.hour)], <<>>)
    ELSE IF snapshot_num_[2] \notin 1..Len(snapshot_schedule) THEN Escaped("KeyError", <<>>)
    ELSE AfterFetch(week_number, snapshot_num_[2],
                    get_nfl_games(<<week_number>>, response),
                    filter_games_for_today(IF response.ok THEN response.games ELSE <<>>, clock.ord),
                    props_response, <<<<"get_nfl_games">>>>)

\* line 46
ResolvedSnapshot(force, clock) ==
    IF Truthy(force) THEN force ELSE determine_current_snapshot(clock.ord, clock.hour)

\* lines 34-198
collect_weekly_data(week_number, force, clock, response, props_response) ==
    AfterResolve(week_number, ResolvedSnapshot(force, clock), clock, response, props_response)

-----------------------------------------------------------------------------
(* Specification of a collection run: collect_weekly_data is called once,   *)
(* at some hour of the week, with or without a forced snapshot, on some     *)
(* response of the odds source                                              *)

WeekNumber == 1

\* the hours at which a run is started: a morning and an afternoon hour of
\* each day of the first week
RunClock == {c \in Clock : c.ord < FirstDay + 7 /\ c.hour \in {9, 16} /\ c.minute = 0}

\* the games of the responses: the fixtures with a bookmaker, and a game
\* without home_team
RunPool ==
    SheetPool
    \cup { [id |-> "e4", commence_time |-> "2025-09-08T00:20:00Z", away_team |-> "Dallas Cowboys",
            bookmakers |-> <<[title |-> "DraftKings", markets |-> <<TotalsMarket>>]>>] }

Responses ==
    {NoFeed} \cup {[ok |-> TRUE, games |-> g] : g \in {g \in SeqsUpTo(RunPool, MaxGames) : DistinctIds(g)}}

InitRun ==
    /\ now \in RunClock
    /\ pc = "idle"
    /\ ClientIdle
    /\ snapshot_num = Unset
    /\ games_data = <<>>
    /\ idx = 0
    /\ todays_games = <<>>
    /\ processed_games = <<>>
    /\ snap = 0
    /\ raw_props = <<>>
    /\ props_data = <<>>
    /\ anytime_td_props_data = <<>>
    /\ sheet = EmptySheet
    /\ game_ids = <<>>
    /\ feed \in Responses
    /\ force_snapshot \in {None} \cup {I(n) : n \in 1..6}
    /\ props_feed \in {"none", "listed"}
    /\ result = NoResult
    /\ exc = ""
    /\ api_calls = <<>>
    /\ data_files = <<>>
    /\ StoreIdle

\* the run ends: its result is returned or its exception escapes; the data
\* package written, if any, holds the collected rows
RunEnds(run) ==
    /\ result' = run.result
    /\ exc' = run.exc
    /\ api_calls' = api_calls \o run.api_calls
    /\ data_files' = data_files \o run.data_files
    /\ processed_games' = IF run.data_files # <<>> THEN run.data_files[1].games_data ELSE <<>>
    /\ props_data' = IF run.data_files # <<>> THEN run.data_files[1].props_data ELSE <<>>
    /\ anytime_td_props_data' =
          IF run.data_files # <<>> THEN run.data_files[1].anytime_td_props_data ELSE <<>>

\* collector.collect_weekly_data(week_number, force_snapshot)
CollectWeeklyData ==
    /\ pc = "idle"
    /\ RunEnds(collect_weekly_data(WeekNumber, force_snapshot, now, feed, props_feed))
    /\ snapshot_num' = ResolvedSnapshot(force_snapshot, now)
    /\ pc' = "run_ended"
    /\ UNCHANGED <<ratevars, now, games_data, idx, todays_games, snap, raw_props, sheet, game_ids,
                   feed, force_snapshot, props_feed, storevars>>

NextRun == CollectWeeklyData

SpecRun == InitRun /\ [][NextRun]_vars

PropsCalls == SelectSeq(api_calls, LAMBDA c : c[1] = "get_player_props")

FeedHasGames == feed.ok /\ feed.games # <<>>

\* C14: a run with snapshot 1 on a non-empty response shapes the rows of
\* every game of the response, makes no get_player_props call, leaves
\* props_data and anytime_td_props_data empty and does not end with the
\* no-games-today failure; a run with snapshot 2..6 that returns success
\* has made exactly one get_player_props call for each game the today-filter
\* kept, in the order of the filter.
C14_OpeningCollectsAllNoProps ==
    pc = "run_ended" =>
        /\ (snapshot_num = I(1) /\ FeedHasGames) =>
              /\ processed_games = process_games_for_snapshot(feed.games, 1, Timestamp).rows
              /\ PropsCalls = <<>>
              /\ props_data = <<>>
              /\ anytime_td_props_data = <<>>
              /\ ~(result.returned /\ ~result.success
                     /\ Contains(result.error, "No games scheduled for today"))
        /\ (snapshot_num \in {I(n) : n \in 2..6} /\ result.returned /\ result.success) =>
              LET kept == filter_games_for_today(feed.games, now.ord).todays_games
              IN PropsCalls = [k \in 1..Len(kept) |-> <<"get_player_props", kept[k].id>>]

\* C15: a run with snapshot 2..6 on a non-empty response of which the
\* today-filter keeps no game returns a result with success false whose
\* error says that no games are scheduled for today and which carries the
\* games of the week in a field of its own; it shapes no row, makes no
\* get_player_props call and writes no data file.
C15_EmptyDayResult ==
    (/\ pc = "run_ended"
     /\ snapshot_num \in {I(n) : n \in 2..6}
     /\ FeedHasGames
     /\ ~filter_games_for_today(feed.games, now.ord).raised
     /\ filter_games_for_today(feed.games, now.ord).todays_games = <<>>) =>
        /\ result.returned
        /\ ~result.success
        /\ Contains(result.error, "No games scheduled for today")
        /\ DOMAIN result \ {"returned", "success", "error", "snapshot"} # {}
        /\ processed_games = <<>>
        /\ PropsCalls = <<>>
        /\ data_files = <<>>

-----------------------------------------------------------------------------
(* SheetStore, Player_Props and Anytime_TD_Props tabs and the Overview tab: *)
(* NFLSheetsWriter._write_props_simplified, _write_anytime_td_props_simple, *)
(* _update_overview_tab and write_collection_data.  Every Sheets API call   *)
(* succeeds.                                                                *)

\* lines 1025-1048
prop_to_sheet_row(prop) ==
    <<prop.game_id, prop.player_name, prop.position, prop.team, prop.market_type,
      prop.bookmaker, prop.data_source, prop.over_line, prop.over_odds, prop.under_line,
      prop.under_odds, prop.collected_date, prop.season_over_rate, prop.season_attempts,
      prop.vs_defense_rate, prop.recent_form_3g, prop.home_away_split>>

\* lines 1050-1066
anytime_td_prop_to_sheet_row(td_prop) ==
    <<td_prop.game_id, td_prop.player_name, td_prop.team, td_prop.bookmaker,
      td_prop.data_source, td_prop.anytime_td_odds, td_prop.collected_date,
      td_prop.season_tds, td_prop.red_zone_targets, td_prop.goal_line_carries,
      td_prop.recent_td_rate>>

\* the text of a cell or field inside an f-string
Str(v) == IF v[1] = "str" THEN v[2] ELSE ""

\* lines 177-183: the key of a Player_Props row
PropRowKey(row_data) ==
    Str(row_data[1]) \o "|" \o Str(row_data[2]) \o "|" \o Str(row_data[5]) \o "|" \o Str(row_data[6])

\* lines 191-195: the key of a prop
PropKey(prop) ==
    Str(prop.game_id) \o "|" \o Str(prop.player_name) \o "|" \o Str(prop.market_type)
    \o "|" \o Str(prop.bookmaker)

\* lines 173-185: prop_row_map, the last data row of at least six cells
\* that holds the key
InPropRowMap(sh, key) == \E r \in 2..Len(sh) : Len(sh[r]) >= 6 /\ PropRowKey(sh[r]) = key

PropRowOf(sh, key) ==
    CHOOSE r \in 2..Len(sh) :
        /\ Len(sh[r]) >= 6 /\ PropRowKey(sh[r]) = key
        /\ \A q \in 2..Len(sh) : (Len(sh[q]) >= 6 /\ PropRowKey(sh[q]) = key) => q <= r

\* lines 206-229: the existing props are updated one by one, columns H..L
RECURSIVE UpdateProps(_, _, _, _)
UpdateProps(sh, map_sheet, existing_props, i) ==
    IF i > Len(existing_props) THEN sh
    ELSE UpdateProps(
             UpdateRange(sh, PropRowOf(map_sheet, PropKey(existing_props[i])), 8,
                         <<existing_props[i].over_line, existing_props[i].over_odds,
                           existing_props[i].under_line, existing_props[i].under_odds,
                           existing_props[i].collected_date>>),
             map_sheet, existing_props, i + 1)

\* lines 167-272
write_props_simplified(sh, props) ==
    LET IsExisting(prop) == InPropRowMap(sh, PropKey(prop))
        IsNew(prop) == ~InPropRowMap(sh, PropKey(prop))
        nw == SelectSeq(props, IsNew)
    IN batch_add_rows(UpdateProps(sh, sh, SelectSeq(props, IsExisting), 1),
                      [k \in 1..Len(nw) |-> prop_to_sheet_row(nw[k])])

\* lines 303-311: the key of an Anytime_TD_Props row
TdRowKey(row_data) == Str(row_data[1]) \o "|" \o Str(row_data[2]) \o "|" \o Str(row_data[4])

\* lines 318-321: the key of a TD prop
TdKey(td_prop) ==
    Str(td_prop.game_id) \o "|" \o Str(td_prop.player_name) \o "|" \o Str(td_prop.bookmaker)

\* lines 300-311: td_prop_row_map
InTdRowMap(sh, key) == \E r \in 2..Len(sh) : Len(sh[r]) >= 4 /\ TdRowKey(sh[r]) = key

TdRowOf(sh, key) ==
    CHOOSE r \in 2..Len(sh) :
        /\ Len(sh[r]) >= 4 /\ TdRowKey(sh[r]) = key
        /\ \A q \in 2..Len(sh) : (Len(sh[q]) >= 4 /\ TdRowKey(sh[q]) = key) => q <= r

\* lines 333-355: the existing TD props are updated one by one, columns E..F
RECURSIVE UpdateTdProps(_, _, _, _)
UpdateTdProps(sh, map_sheet, existing_td_props, i) ==
    IF i > Len(existing_td_props) THEN sh
    ELSE UpdateTdProps(
             UpdateRange(sh, TdRowOf(map_sheet, TdKey(existing_td_props[i])), 5,
                         <<existing_td_props[i].anytime_td_odds,
                           existing_td_props[i].collected_date>>),
             map_sheet, existing_td_props, i + 1)

\* lines 293-394
write_anytime_td_props_simple(sh, td_props) ==
    LET IsExisting(td_prop) == InTdRowMap(sh, TdKey(td_prop))
        IsNew(td_prop) == ~InTdRowMap(sh, TdKey(td_prop))
        nw == SelectSeq(td_props, IsNew)
    IN batch_add_rows(UpdateTdProps(sh, sh, SelectSeq(td_props, IsExisting), 1),
                      [k \in 1..Len(nw) |-> anytime_td_prop_to_sheet_row(nw[k])])

\* lines 147-165 and 81-87
write_player_props(sh, props) == IF props = <<>> THEN sh ELSE write_props_simplified(sh, props)

\* lines 274-291 and 89-95
write_anytime_td_props(sh, td_props) ==
    IF td_props = <<>> THEN sh ELSE write_anytime_td_props_simple(sh, td_props)

\* lines 1204-1232: the status cell of the snapshot of the data package
update_overview_tab(ov, data) ==
    IF data.snapshot \in 1..6
    THEN [ov EXCEPT ![data.snapshot] = "Collected - " \o Str(data.collection_timestamp)]
    ELSE ov

\* lines 40-122: the data package is written tab by tab, then the overview
write_collection_data(store, data) ==
    [weekly_file |-> store.weekly_file,
     sheet |-> write_game_lines(store.sheet, data.games_data, data.snapshot),
     props_sheet |-> write_player_props(store.props_sheet, data.props_data),
     td_sheet |-> write_anytime_td_props(store.td_sheet, data.anytime_td_props_data),
     overview |-> update_overview_tab(store.overview, data)]

\* the write calls write_collection_data makes on the spreadsheet
WriteCalls(data) ==
    (IF data.games_data # <<>> THEN <<"write_game_lines">> ELSE <<>>)
    \o (IF data.props_data # <<>> THEN <<"write_player_props">> ELSE <<>>)
    \o (IF data.anytime_td_props_data # <<>> THEN <<"write_anytime_td_props">> ELSE <<>>)
    \o <<"update_overview_tab">>

-----------------------------------------------------------------------------
(* WeeklyWorkflow.execute_weekly_collection                                 *)

\* the weekly spreadsheet as cloned from the master template and cleared
FreshStore ==
    [weekly_file |-> TRUE, sheet |-> EmptySheet, props_sheet |-> << <<S("Game_ID")>> >>,
     td_sheet |-> << <<S("Game_ID")>> >>, overview |-> NotCollected]

\* weekly_workflow.py lines 200-225
check_existing_snapshots(ov) ==
    {n \in 1..6 : ov[n] # "" /\ ov[n] # "Not Collected" /\ Contains(ov[n], "Collected")}

\* str(n) for a snapshot number
SnapshotDigit(n) == SubSeq("123456", n, n)

\* the outcome of a workflow run: the step it ended in, the returned dict or
\* the escaped exception, the calls made on the odds source and on the
\* spreadsheet store, the data files written and the store after the run
WfOutcome(step, name, dict, calls, files, writes, store) ==
    [step |-> step, exc |-> name, result |-> dict, api_calls |-> calls, data_files |-> files,
     store_calls |-> writes, store |-> store]

\* lines 99-130: the collection has ended
AfterCollection(week_number, run, writes, store) ==
    IF run.exc # ""
    THEN WfOutcome("data_collection", run.exc, NoResult, run.api_calls, run.data_files, writes, store)
    ELSE IF ~run.result.success
    THEN WfOutcome("data_collection", "",
                   [returned |-> TRUE, success |-> FALSE, error |-> run.result.error,
                        step |-> "data_collection"],
                   run.api_calls, run.data_files, writes, store)
    ELSE WfOutcome("done", "", [returned |-> TRUE, success |-> TRUE, week |-> week_number,
                        snapshot |-> run.result.snapshot,
                        snapshot_description |-> run.result.snapshot_description,
                        games_collected |-> run.result.games_collected,
                        props_collected |-> run.result.props_collected,
                        anytime_td_props_collected |-> run.result.anytime_td_props_collected,
                        collection_timestamp |-> run.result.collection_timestamp],
                   run.api_calls, run.data_files,
                   writes \o WriteCalls(run.result.data_file),
                   write_collection_data(store, run.result.data_file))

\* weekly_workflow.py lines 202-225: the snapshots found in the status cells,
\* none when the cells cannot be read
ExistingSnapshots(ov, read_ok) == IF read_ok THEN check_existing_snapshots(ov) ELSE {}

\* lines 83-99: the weekly spreadsheet is there; existing_snapshots are the
\* snapshots _check_existing_snapshots returned
AfterSpreadsheet(week_number, snapshot, clock, response, props_response, writes, store, existing_snapshots) ==
    IF snapshot \in existing_snapshots
    THEN WfOutcome("existing_snapshots", "", [returned |-> TRUE, success |-> FALSE,
                        error |-> "Snapshot " \o SnapshotDigit(snapshot) \o " already exists",
                        snapshot |-> snapshot,
                        existing_snapshots |-> existing_snapshots],
                   <<>>, <<>>, writes, store)
    ELSE AfterCollection(week_number,
                         collect_weekly_data(week_number, I(snapshot), clock, response,
                                             props_response),
                         writes, store)

\* lines 72-82 and 132-198: the weekly spreadsheet is found, or cloned from
\* the master template, moved and cleared; copy_ok tells whether the clone
\* succeeds, read_ok whether the status cells of the overview can be read
AfterSnapshot(week_number, snapshot, clock, response, props_response, store, copy_ok, read_ok) ==
    IF store.weekly_file
    THEN AfterSpreadsheet(week_number, snapshot, clock, response, props_response, <<>>, store,
                          ExistingSnapshots(store.overview, read_ok))
    ELSE IF ~copy_ok
    THEN WfOutcome("spreadsheet_creation", "", [returned |-> TRUE, success |-> FALSE,
                        error |-> "Failed to create weekly spreadsheet",
                        step |-> "spreadsheet_creation"], <<>>, <<>>, <<>>, store)
    ELSE AfterSpreadsheet(week_number, snapshot, clock, response, props_response,
                          <<"files.copy", "files.update", "values.clear">>, FreshStore,
                          ExistingSnapshots(FreshStore.overview, read_ok))

\* lines 47-130
execute_weekly_collection(week_number, snapshot_arg, clock, response, props_response, store, copy_ok, read_ok) ==
    IF snapshot_arg = None /\ determine_current_snapshot(clock.ord, clock.hour) = None
    THEN WfOutcome("snapshot", "", [returned |-> TRUE, success |-> FALSE,
                        error |-> "Not a scheduled collection time",
                        next_collection |-> get_next_collection_time(clock.ord, clock.hour)],
                   <<>>, <<>>, <<>>, store)
    ELSE AfterSnapshot(week_number,
                       (IF snapshot_arg = None
                        THEN determine_current_snapshot(clock.ord, clock.hour)
                        ELSE snapshot_arg)[2],
                       clock, response, props_response, store, copy_ok, read_ok)

-----------------------------------------------------------------------------
(* The weekly spreadsheet under repeated writes of collection results       *)

\* the bookmakers of a game quoted by two books, all prices non-zero
TwoBookmakers(home, away) ==
    <<[title |-> "DraftKings",
       markets |-> <<SpreadsMarket(home, away), TotalsMarket, H2hMarket(home, away, -150, 130)>>],
      [title |-> "FanDuel", markets |-> <<H2hMarket(home, away, -140, 120)>>]>>

\* the game lists of the collection results: no game, the first Sunday
\* fixture quoted by one book, and quoted by two books
StoreGames ==
    LET f == CHOOSE g \in Fixtures : g.id = "e1"
        game(b) == [id |-> f.id, commence_time |-> f.commence_time, home_team |-> f.home_team,
                    away_team |-> f.away_team, bookmakers |-> b]
    IN { <<>>,
         <<game(<<TwoBookmakers(f.home_team, f.away_team)[1]>>)>>,
         <<game(TwoBookmakers(f.home_team, f.away_team))>> }

\* the prop outcomes of the collection results: none, or a passing line and
\* an anytime touchdown price of one player at one book
StoreOutcomes ==
    { <<>>,
      <<[title |-> "DraftKings", key |-> "player_pass_yds", outcome |-> AllenOver],
        [title |-> "DraftKings", key |-> "player_pass_yds", outcome |-> AllenUnder],
        [title |-> "DraftKings", key |-> "player_anytime_td", outcome |-> AllenTdOver]>> }

\* data_collector.py lines 95-168: the data package of a run that collected
\* the games raw and the prop outcomes t at the given snapshot
CollectionResult(snapshot, raw, t) ==
    LET sep == IF should_collect_props_for_snapshot(snapshot) /\ raw # <<>>
               THEN separate_anytime_td_props(get_player_props(EventOf(t)))
               ELSE [regular_props |-> <<>>, anytime_td_props |-> <<>>]
    IN DataPackage(WeekNumber, snapshot,
                   process_games_for_snapshot(raw, snapshot, Timestamp).rows,
                   IF sep.regular_props # <<>>
                   THEN process_props_for_snapshot(sep.regular_props, snapshot, Timestamp)
                   ELSE <<>>,
                   IF sep.anytime_td_props # <<>>
                   THEN process_anytime_td_props_for_snapshot(sep.anytime_td_props, snapshot,
                                                              Timestamp)
                   ELSE <<>>)

StoreResults ==
    { CollectionResult(snapshot, raw, t) : snapshot \in 1..6, raw \in StoreGames,
                                           t \in StoreOutcomes }

\* the weekly spreadsheet as the writer finds it
CurrentStore ==
    [weekly_file |-> weekly_file, sheet |-> sheet, props_sheet |-> props_sheet,
     td_sheet |-> td_sheet, overview |-> overview]

InitStore ==
    /\ now \in {c \in Clock : c.ord = FirstDay /\ c.hour = 16 /\ c.minute = 0}
    /\ pc = "idle"
    /\ ClientIdle
    /\ snapshot_num = Unset
    /\ games_data = <<>>
    /\ idx = 0
    /\ todays_games = <<>>
    /\ processed_games = <<>>
    /\ snap = 0
    /\ raw_props = <<>>
    /\ props_data = <<>>
    /\ anytime_td_props_data = <<>>
    /\ game_ids = <<>>
    /\ RunIdle
    /\ sheet = FreshStore.sheet
    /\ props_sheet = FreshStore.props_sheet
    /\ td_sheet = FreshStore.td_sheet
    /\ overview = FreshStore.overview
    /\ weekly_file = TRUE
    /\ store_calls = <<>>

\* the store after the write
StoreBecomes(store) ==
    /\ sheet' = store.sheet
    /\ props_sheet' = store.props_sheet
    /\ td_sheet' = store.td_sheet
    /\ overview' = store.overview
    /\ weekly_file' = store.weekly_file

\* NFLSheetsWriter(weekly_spreadsheet_id).write_collection_data(data_file)
WriteCollectionData ==
    /\ idx < MaxWrites
    /\ \E data \in StoreResults :
          /\ StoreBecomes(write_collection_data(CurrentStore, data))
          /\ data_files' = Append(data_files, data)
          /\ store_calls' = store_calls \o WriteCalls(data)
          /\ snap' = data.snapshot
          /\ processed_games' = data.games_data
          /\ props_data' = data.props_data
          /\ anytime_td_props_data' = data.anytime_td_props_data
    /\ idx' = idx + 1
    /\ pc' = "written"
    /\ UNCHANGED <<ratevars, now, snapshot_num, games_data, todays_games, raw_props, game_ids, feed,
                   force_snapshot, props_feed, result, exc, api_calls>>

NextStore == WriteCollectionData

SpecStore == InitStore /\ [][NextStore]_vars

\* the set of rows of a sheet
RowsOf(sh) == {sh[r] : r \in 1..Len(sh)}

\* no two data rows of the sheet have the same cells at the columns cols
KeyedOnce(sh, cols) ==
    \A r, q \in 2..Len(sh) :
       (r # q /\ \A c \in cols : Len(sh[r]) >= c /\ Len(sh[q]) >= c)
          => \E c \in cols : sh[r][c] # sh[q][c]

\* C17: when the same collection result has been written twice to a fresh
\* weekly spreadsheet, the Game_Lines, Player_Props and Anytime_TD_Props
\* sheets hold the same set of rows as after one write, and no two rows of a
\* sheet share the identity key (game_id, bookmaker), (game_id, player,
\* market, bookmaker) or (game_id, player, bookmaker).
C17_RerunNoDuplicates ==
    (Len(data_files) = 2 /\ data_files[1] = data_files[2]) =>
        /\ RowsOf(sheet) = RowsOf(write_collection_data(FreshStore, data_files[1]).sheet)
        /\ RowsOf(props_sheet)
              = RowsOf(write_collection_data(FreshStore, data_files[1]).props_sheet)
        /\ RowsOf(td_sheet) = RowsOf(write_collection_data(FreshStore, data_files[1]).td_sheet)
        /\ KeyedOnce(sheet, {1, 5})
        /\ KeyedOnce(props_sheet, {1, 2, 5, 6})
        /\ KeyedOnce(td_sheet, {1, 2, 4})

\* an Opening write followed by Final writes only
OpeningThenFinals ==
    /\ Len(data_files) >= 2
    /\ data_files[1].snapshot = 1
    /\ \A k \in 2..Len(data_files) : data_files[k].snapshot # 1

\* C18: after an Opening write followed by Final writes, the Game_Lines
\* sheet holds at most one row per (game_id, bookmaker), and every final
\* value of every row of the last Final result is found in the sheet row of
\* that row's own game_id and bookmaker.
C18_FinalInOwnRow ==
    OpeningThenFinals =>
        /\ KeyedOnce(sheet, {1, 5})
        /\ \A k \in 1..Len(processed_games) :
              \A c \in 1..Len(ColumnOrder) :
                 Truthy(processed_games[k][Field("final", ColumnOrder[c])]) =>
                    \E r \in 2..Len(sheet) :
                       /\ sheet[r][1] = processed_games[k]["game_id"]
                       /\ sheet[r][5] = processed_games[k]["bookmaker"]
                       /\ sheet[r][ColumnOf("final", ColumnOrder[c])]
                             = processed_games[k][Field("final", ColumnOrder[c])]

-----------------------------------------------------------------------------
(* Runs of the weekly workflow                                              *)

\* number of workflow runs for one week and snapshot
MaxRuns == 2

\* the responses of the odds source: no response, no game, or one game
WfResponses ==
    {NoFeed} \cup {[ok |-> TRUE, games |-> g] : g \in SeqsUpTo(RunPool, 1)}

\* the overview of a weekly spreadsheet: no snapshot collected, or one
Overviews ==
    {NotCollected}
    \cup {[NotCollected EXCEPT ![n] = "Collected - " \o Str(Timestamp)] : n \in 1..6}

InitWorkflow ==
    /\ now \in RunClock
    /\ pc = "idle"
    /\ ClientIdle
    /\ snapshot_num = Unset
    /\ games_data = <<>>
    /\ idx = 0
    /\ todays_games = <<>>
    /\ processed_games = <<>>
    /\ snap = 0
    /\ raw_props = <<>>
    /\ props_data = <<>>
    /\ anytime_td_props_data = <<>>
    /\ game_ids = <<>>
    /\ feed \in WfResponses
    /\ force_snapshot \in {None} \cup {I(n) : n \in 1..6}
    /\ props_feed \in {"none", "listed"}
    /\ result = NoResult
    /\ exc = ""
    /\ api_calls = <<>>
    /\ data_files = <<>>
    /\ weekly_file \in BOOLEAN
    /\ overview \in (IF weekly_file THEN Overviews ELSE {NotCollected})
    /\ sheet = FreshStore.sheet
    /\ props_sheet = FreshStore.props_sheet
    /\ td_sheet = FreshStore.td_sheet
    /\ store_calls = <<>>

\* the workflow run ends: its result is returned or its exception escapes
WorkflowEnds(out) ==
    /\ pc' = out.step
    /\ result' = out.result
    /\ exc' = out.exc
    /\ api_calls' = out.api_calls
    /\ data_files' = out.data_files
    /\ store_calls' = out.store_calls
    /\ StoreBecomes(out.store)

\* workflow.execute_weekly_collection(week, snapshot); the calls and the data
\* files recorded are those of this run
ExecuteWeeklyCollection ==
    /\ idx < MaxRuns
    /\ \E copy_ok \in BOOLEAN, read_ok \in BOOLEAN :
          WorkflowEnds(execute_weekly_collection(WeekNumber, force_snapshot, now, feed,
                                                 props_feed, CurrentStore, copy_ok, read_ok))
    /\ idx' = idx + 1
    /\ snapshot_num' = ResolvedSnapshot(force_snapshot, now)
    /\ UNCHANGED <<ratevars, now, games_data, todays_games, processed_games, snap, raw_props,
                   props_data, anytime_td_props_data, game_ids, feed, force_snapshot,
                   props_feed>>

NextWorkflow == ExecuteWeeklyCollection

SpecWorkflow == InitWorkflow /\ [][NextWorkflow]_vars

\* the run got as far as the data collection and the games fetch, or the
\* props fetch of a game, fails
FetchFails ==
    /\ pc = "data_collection"
    /\ \/ ~feed.ok
       \/ /\ FeedHasGames
          /\ snapshot_num \in {I(n) : n \in 2..6}
          /\ props_feed = "none"
          /\ filter_games_for_today(feed.games, now.ord).todays_games # <<>>

\* C16: a workflow run whose games fetch or whose props fetch of a game
\* fails returns a result with success false, and in that run no data file
\* is written and no create or write call is made on the spreadsheet store.
C16_FailedFetchPersistsNothing ==
    FetchFails =>
        /\ result.returned
        /\ ~result.success
        /\ data_files = <<>>
        /\ store_calls = <<>>

\* the overview of the weekly spreadsheet marks the snapshot of the run as
\* collected
TargetCollected ==
    /\ pc \notin {"idle", "snapshot", "done"}
    /\ weekly_file
    /\ \E n \in check_existing_snapshots(overview) : snapshot_num = I(n)

\* C19: a workflow run whose target snapshot the overview of the weekly
\* spreadsheet marks as collected makes no call on the odds source and no
\* write on the spreadsheet, and returns the result that names the snapshot
\* as already existing, together with the existing snapshots.
C19_AlreadyCollectedNoOp ==
    (TargetCollected /\ idx = 1) =>
        /\ api_calls = <<>>
        /\ store_calls = <<>>
        /\ data_files = <<>>
        /\ result.returned
        /\ Contains(result.error, "already exists")
        /\ "existing_snapshots" \in DOMAIN result

\* C20: every workflow run ends by returning a result whose success is a
\* boolean, a result with success false carries an error text, and the
\* result of an off-schedule run carries the next collection window.
C20_StructuredResult ==
    pc # "idle" =>
        /\ result.returned
        /\ result.success \in BOOLEAN
        /\ (~result.success => ("error" \in DOMAIN result /\ result.error # ""))
        /\ (pc = "snapshot" => "next_collection" \in DOMAIN result)

-----------------------------------------------------------------------------
(* Malformed records and the market fields of the shaper                    *)

\* a raw game has both team names
HasTeams(game) == HasKey(game, "home_team") /\ HasKey(game, "away_team")

\* a raw game has a bookmaker with markets that offers spreads or h2h with
\* at least one outcome
ReadsTeams(game) ==
    \E j \in 1..Len(Get(game, "bookmakers", <<>>)) :
       \E m \in 1..Len(Get(game.bookmakers[j], "markets", <<>>)) :
          /\ Get(game.bookmakers[j].markets[m], "key", "") \in {"spreads", "h2h"}
          /\ Get(game.bookmakers[j].markets[m], "outcomes", <<>>) # <<>>

\* C21: when the batch holds a raw game that lacks home_team or away_team
\* and has a bookmaker with a spreads or h2h market, the call returns, and
\* the rows of the games that have both team names are all in the output.
C21_MalformedSkipped ==
    (ShapeEnded /\ \E i \in 1..Len(games_data) :
                      ~HasTeams(games_data[i]) /\ ReadsTeams(games_data[i])) =>
        /\ pc = "shape_returned"
        /\ \A row \in RowsOf(process_games_for_snapshot(SelectSeq(games_data, HasTeams),
                                                        snap, Timestamp).rows) :
              InSeq(row, processed_games)

-----------------------------------------------------------------------------
(* Specification of the player-name extraction: one call of                 *)
(* _process_player_props on the response to the request of one market       *)

\* outcomes whose description is empty while the name holds the player, and
\* whose player has a surname that begins with Over
EmptyDescription ==
    [name |-> "Josh Allen Over", description |-> "", point |-> I(250), price |-> I(-110)]
Overton == [name |-> "Over", description |-> "Matt Overton", point |-> I(1), price |-> I(-110)]

NamePool == {AllenOver, AllenUnderLong, CookOver, Unnamed, EmptyDescription, Overton}

\* the response to the request of the passing-yards market of the first
\* Sunday fixture, one bookmaker listing the outcomes
NameEvent(outcomes) ==
    LET f == CHOOSE g \in Fixtures : g.id = "e1"
    IN [id |-> f.id, commence_time |-> f.commence_time, home_team |-> f.home_team,
        away_team |-> f.away_team,
        bookmakers |-> <<[title |-> "DraftKings",
                          markets |-> <<[key |-> "player_pass_yds", outcomes |-> outcomes]>>]>>]

InitPlayerName ==
    /\ now \in {c \in Clock : c.ord = FirstDay + 6 /\ c.hour = 9 /\ c.minute = 0}
    /\ pc = "idle"
    /\ ClientIdle
    /\ snapshot_num = Unset
    /\ games_data = <<>>
    /\ idx = 0
    /\ todays_games = <<>>
    /\ processed_games = <<>>
    /\ snap = 0
    /\ raw_props \in {NameEvent(t) : t \in SeqsUpTo(NamePool, MaxOutcomes)}
    /\ props_data = <<>>
    /\ anytime_td_props_data = <<>>
    /\ sheet = EmptySheet
    /\ AuxIdle

\* self._process_player_props(data, market)
ProcessPlayerProps ==
    /\ pc = "idle"
    /\ props_data' = process_player_props(<<raw_props>>, "player_pass_yds")
    /\ pc' = "props_processed"
    /\ UNCHANGED <<ratevars, now, snapshot_num, games_data, idx, todays_games, processed_games,
                   snap, raw_props, anytime_td_props_data, sheet, aux>>

NextPlayerName == ProcessPlayerProps

SpecPlayerName == InitPlayerName /\ [][NextPlayerName]_vars

\* a text with a trailing ' Over' or ' Under' removed
TrailingSideRemoved(d) ==
    IF EndsWith(d, " Over") THEN SubSeq(d, 1, Len(d) - 5)
    ELSE IF EndsWith(d, " Under") THEN SubSeq(d, 1, Len(d) - 6)
    ELSE d

\* the player an outcome names: by its description, or else by its name
\* field without the last word
NamedPlayer(outcome) ==
    LET by_description ==
            IF HasKey(outcome, "description") THEN Strip(TrailingSideRemoved(outcome.description))
            ELSE ""
        by_name ==
            IF HasKey(outcome, "name") /\ Contains(outcome.name, " ")
            THEN AllButLastWord(outcome.name)
            ELSE ""
    IN IF by_description # "" THEN by_description ELSE by_name

\* C22: the call returns one record for each outcome of the requested
\* market that names a player by its description (a trailing ' Over' or
\* ' Under' removed) or else by its name field (the last word dropped), in
\* the order of the outcomes and carrying that name, and no record for the
\* outcomes that name no player.
C22_PlayerNameExtraction ==
    pc = "props_processed" =>
        LET outcomes == raw_props.bookmakers[1].markets[1].outcomes
            named == SelectSeq(outcomes, LAMBDA o : NamedPlayer(o) # "")
        IN /\ Len(props_data) = Len(named)
           /\ \A k \in 1..Len(named) :
                 k <= Len(props_data) => props_data[k].player_name = NamedPlayer(named[k])

-----------------------------------------------------------------------------
(* The next collection window                                               *)

\* the hour of the week, counted from Monday 00:00, at which the window of
\* each snapshot 1..6 opens: Tue 10, Thu 15, Fri 15, Sat 10, Sun 8, Mon 15
WindowOpens == <<24 + 10, 72 + 15, 96 + 15, 120 + 10, 144 + 8, 15>>

HourOfWeek(ord, hour) == Weekday(ord) * 24 + hour

\* the snapshot of the first window that opens after the given time, the
\* Monday window of the next week after the Monday window has opened
NextWindow(ord, hour) ==
    LET later == {n \in 1..6 : WindowOpens[n] > HourOfWeek(ord, hour)}
    IN IF later = {} THEN 6
       ELSE CHOOSE n \in later : \A q \in later : WindowOpens[n] <= WindowOpens[q]

\* C23: at the time of every run, _get_next_collection_time names the
\* snapshot of the first window that opens after that time, and the
\* off-schedule result of the run carries that text.
C23_NextWindowNamed ==
    pc = "run_ended" =>
        /\ Contains(get_next_collection_time(now.ord, now.hour),
                    "Snapshot " \o SnapshotDigit(NextWindow(now.ord, now.hour)))
        /\ (result.returned /\ "next_collection" \in DOMAIN result) =>
              result.next_collection = get_next_collection_time(now.ord, now.hour)

-----------------------------------------------------------------------------
(* Off-schedule runs                                                        *)

\* Monday before the 15:00 window opens
MondayBeforeWindow(ord, hour) == Weekday(ord) = 0 /\ hour < 15

\* at every clock that is not on Monday before 15:00 the resolver returns a
\* snapshot number
ResolvesOffMondayMorning ==
    \A c \in Clock :
       ~MondayBeforeWindow(c.ord, c.hour)
           => determine_current_snapshot(c.ord, c.hour) \in {I(n) : n \in 1..6}

-----------------------------------------------------------------------------
(* Specification of the market shaping: one call of                         *)
(* _process_games_for_snapshot on one game of one bookmaker                 *)

\* number of markets a bookmaker lists for a game
MaxMarkets == 3

\* the markets of the feed for a game: each of spreads, totals and h2h as
\* the feed usually lists it, with an outcome that names neither slot
\* listed first, and with the slots in the other order and a point missing
MarketPool(home, away) ==
    { SpreadsMarket(home, away), TotalsMarket, H2hMarket(home, away, -150, 130),
      [key |-> "spreads",
       outcomes |-> <<[name |-> "Draw", price |-> I(900), point |-> I(1)],
                      [name |-> away, price |-> I(-102), point |-> I(4)],
                      [name |-> home, price |-> I(-118)]>>],
      [key |-> "totals",
       outcomes |-> <<[name |-> "Push", price |-> I(1500), point |-> I(46)],
                      [name |-> "Under 46.5", price |-> I(-104), point |-> I(46)],
                      [name |-> "Over 46.5", price |-> I(-116), point |-> I(46)]>>],
      [key |-> "h2h",
       outcomes |-> <<[name |-> "Draw", price |-> I(1200)],
                      [name |-> away, price |-> I(135)],
                      [name |-> home, price |-> I(-155)]>>],
      [key |-> "h2h_lay", outcomes |-> <<[name |-> home, price |-> I(-160)]>>] }

\* a bookmaker lists a market key once
DistinctKeys(markets) ==
    \A i, j \in 1..Len(markets) : i # j => markets[i].key # markets[j].key

\* the first Sunday fixture quoted by one bookmaker with the given markets
MarketGame(markets) ==
    LET f == CHOOSE g \in Fixtures : g.id = "e1"
    IN [id |-> f.id, commence_time |-> f.commence_time, home_team |-> f.home_team,
        away_team |-> f.away_team,
        bookmakers |-> <<[title |-> "DraftKings", markets |-> markets]>>]

InitMarkets ==
    /\ now \in {c \in Clock : c.ord = FirstDay /\ c.hour = 16 /\ c.minute = 0}
    /\ pc = "idle"
    /\ ClientIdle
    /\ snapshot_num = Unset
    /\ games_data \in
          { <<MarketGame(mk)>> :
               mk \in {m \in SeqsUpTo(MarketPool("Los Angeles Rams", "New York Jets"), MaxMarkets) :
                          m # <<>> /\ DistinctKeys(m)} }
    /\ idx = 0
    /\ todays_games = <<>>
    /\ processed_games = <<>>
    /\ snap \in 1..6
    /\ raw_props = <<>>
    /\ props_data = <<>>
    /\ anytime_td_props_data = <<>>
    /\ sheet = EmptySheet
    /\ AuxIdle

SpecMarkets == InitMarkets /\ [][NextShaper]_vars

\* the outcomes a bookmaker lists under a market key whose name satisfies
\* the test
OutcomesWhere(bookmaker, key, Test(_)) ==
    UNION { { bookmaker.markets[m].outcomes[o] :
                 o \in {o \in 1..Len(bookmaker.markets[m].outcomes) :
                           Test(bookmaker.markets[m].outcomes[o].name)} } :
            m \in {m \in 1..Len(bookmaker.markets) : bookmaker.markets[m].key = key} }

\* the value a slot takes from the outcomes that match it: '' when none
\* matches or the matching outcome lacks the attribute
SlotValue(outcomes, attribute) ==
    IF outcomes = {} THEN EMPTY
    ELSE Get(CHOOSE o \in outcomes : TRUE, attribute, EMPTY)

\* the market fields of the row of a bookmaker of a game
AssignedFields(game, bookmaker) ==
    LET IsHome(name) == name = game.home_team
        IsAway(name) == name = game.away_team
        IsOver(name) == Contains(name, "Over")
        IsUnder(name) == Contains(name, "Under")
    IN [spread_line |-> SlotValue(OutcomesWhere(bookmaker, "spreads", IsHome), "point"),
        spread_home_odds |-> SlotValue(OutcomesWhere(bookmaker, "spreads", IsHome), "price"),
        spread_away_odds |-> SlotValue(OutcomesWhere(bookmaker, "spreads", IsAway), "price"),
        total_line |-> SlotValue(OutcomesWhere(bookmaker, "totals", IsOver), "point"),
        total_over_odds |-> SlotValue(OutcomesWhere(bookmaker, "totals", IsOver), "price"),
        total_under_odds |-> SlotValue(OutcomesWhere(bookmaker, "totals", IsUnder), "price"),
        ml_home |-> SlotValue(OutcomesWhere(bookmaker, "h2h", IsHome), "price"),
        ml_away |-> SlotValue(OutcomesWhere(bookmaker, "h2h", IsAway), "price")]

\* C25: the call returns one row whose spread, total and moneyline fields
\* of the snapshot's kind are the point and price of the outcomes that
\* match the slots (home and away team by equal name, Over and Under by
\* containment), and '' where no outcome matches the slot.
C25_MarketFields ==
    ShapeEnded =>
        /\ pc = "shape_returned"
        /\ Len(processed_games) = 1
        /\ \A f \in DOMAIN AssignedFields(games_data[1], games_data[1].bookmakers[1]) :
              processed_games[1][Field(snapshot_type(snap), f)]
                 = AssignedFields(games_data[1], games_data[1].bookmakers[1])[f]

\* a final run shaped a bookmaker that lists a Draw before the two teams in
\* its moneyline market: the prices of the teams are in their fields
C25_Witness ==
    /\ pc = "shape_returned"
    /\ snap = 3
    /\ \E m \in 1..Len(games_data[1].bookmakers[1].markets) :
          /\ games_data[1].bookmakers[1].markets[m].key = "h2h"
          /\ games_data[1].bookmakers[1].markets[m].outcomes[1].name = "Draw"
    /\ processed_games[1]["final_ml_home"] = I(-155)
    /\ processed_games[1]["final_ml_away"] = I(135)
    /\ processed_games[1]["opening_ml_home"] = EMPTY

\* C26: a returned row that has a spread, total or moneyline field of the
\* snapshot's kind set has the collected_date of that kind set to the
\* timestamp of the run.
C26_CollectedDateSet ==
    pc = "shape_returned" =>
        \A k \in 1..Len(processed_games) :
           (\E f \in SnapshotFields \ {"collected_date"} :
               processed_games[k][Field(snapshot_type(snap), f)] # EMPTY)
              => processed_games[k][Field(snapshot_type(snap), "collected_date")] = Timestamp

-----------------------------------------------------------------------------
(* The game ids inside one collection result                                *)

\* C27: in every collection result written, the game_id of every row of
\* props_data and of anytime_td_props_data is the game_id of a row of
\* games_data of that result.
C27_PropsReferToGames ==
    \A i \in 1..Len(data_files) :
       /\ \A k \in 1..Len(data_files[i].props_data) :
             \E g \in 1..Len(data_files[i].games_data) :
                data_files[i].props_data[k].game_id = data_files[i].games_data[g].game_id
       /\ \A k \in 1..Len(data_files[i].anytime_td_props_data) :
             \E g \in 1..Len(data_files[i].games_data) :
                data_files[i].anytime_td_props_data[k].game_id
                   = data_files[i].games_data[g].game_id

-----------------------------------------------------------------------------
(* Writes whose Game_Lines request fails                                    *)

\* sheets_writer.py lines 40-122 when the Sheets request of _write_game_lines
\* raises HttpError (lines 139-145: zero rows written, the error recorded):
\* the Game_Lines sheet is left as it was, the other tabs and the overview
\* are written
write_collection_data_lines_failed(store, data) ==
    [weekly_file |-> store.weekly_file,
     sheet |-> store.sheet,
     props_sheet |-> write_player_props(store.props_sheet, data.props_data),
     td_sheet |-> write_anytime_td_props(store.td_sheet, data.anytime_td_props_data),
     overview |-> update_overview_tab(store.overview, data)]

\* the dict write_collection_data returns after a failed Game_Lines write
LinesFailedResult(data) ==
    [returned |-> TRUE, success |-> TRUE, week |-> data.week, snapshot |-> data.snapshot,
     games_written |-> 0, errors |-> <<"Failed to write game lines">>]

\* write_collection_data(data_file) on a result with game rows, the request
\* of the Game_Lines write failing
WriteLinesFail ==
    /\ idx < MaxWrites
    /\ \E data \in {d \in StoreResults : d.games_data # <<>>} :
          /\ StoreBecomes(write_collection_data_lines_failed(CurrentStore, data))
          /\ result' = LinesFailedResult(data)
          /\ data_files' = Append(data_files, data)
          /\ store_calls' = store_calls \o WriteCalls(data)
          /\ snap' = data.snapshot
          /\ processed_games' = data.games_data
          /\ props_data' = data.props_data
          /\ anytime_td_props_data' = data.anytime_td_props_data
    /\ idx' = idx + 1
    /\ pc' = "lines_failed"
    /\ UNCHANGED <<ratevars, now, snapshot_num, games_data, todays_games, raw_props, game_ids, feed,
                   force_snapshot, props_feed, exc, api_calls>>

NextFailingStore == WriteCollectionData \/ WriteLinesFail

SpecFailingStore == InitStore /\ [][NextFailingStore]_vars

\* C28: after the first write to a weekly spreadsheet, if the Game_Lines
\* write of that call failed, the status cell of its snapshot does not read
\* as collected, so the already-collected guard does not skip the snapshot.
C28_CollectedOnlyAfterLinesWritten ==
    (pc = "lines_failed" /\ idx = 1) => snap \notin check_existing_snapshots(overview)

-----------------------------------------------------------------------------
(* Frame of a Final write *)

\* the last column of the identity and opening cells (N), and of a row (W)
LastOpeningColumn == 14
LastColumn == 23

\* the data row r of the sheet is one that the Final write of the games
\* updates: the row game_row_map holds for the game_id of one of them
UpdatedRow(sh, games, r) ==
    \E k \in 1..Len(games) :
       /\ Truthy(games[k]["game_id"])
       /\ InRowMap(sh, games[k]["game_id"])
       /\ r = RowOf(sh, games[k]["game_id"])

-----------------------------------------------------------------------------
(* OddsAPIClient: the rate limiter of _make_request                         *)
(* Time is counted in seconds.  The limit of 500 requests per minute of the *)
(* source is scaled down to a bound.                                        *)

max_requests_per_minute == 2

\* calls of _make_request in one behaviour, and the last second of the clock
MaxRequests == 4
MaxTime == 120

\* seconds between two calls, and seconds session.get takes (timeout=30)
Pause == 30
Durations == {0, 30}

\* what session.get and raise_for_status do: a 2xx response, a response with
\* an error status, or session.get raising (connection error, timeout)
RequestOutcomes == {"ok", "http_error", "raises"}

\* line 277: the timestamps younger than one minute at time t
recent_timestamps(timestamps, t) == SelectSeq(timestamps, LAMBDA ts : t - ts < 60)

\* lines 272-280
check_rate_limit(timestamps, t) ==
    Len(recent_timestamps(timestamps, t)) < max_requests_per_minute

\* lines 239-270: _make_request(endpoint, params); the request goes out
\* after the 60 second sleep when the limit is reached, and is tracked
\* (lines 282-285) only when session.get returned a response
MakeRequest ==
    /\ Len(sent_at) < MaxRequests
    /\ \E outcome \in RequestOutcomes, took \in Durations :
          /\ sent_at' = Append(sent_at,
                               IF check_rate_limit(request_timestamps, time) THEN time
                               ELSE time + 60)
          /\ time' = sent_at'[Len(sent_at')] + took
          /\ IF outcome = "raises"
             THEN /\ request_timestamps' = recent_timestamps(request_timestamps, time)
                  /\ requests_made' = requests_made
             ELSE /\ request_timestamps'
                        = Append(recent_timestamps(request_timestamps, time), time')
                  /\ requests_made' = requests_made + 1
          /\ result' = [returned |-> TRUE, response |-> outcome = "ok"]
    /\ pc' = "requested"
    /\ UNCHANGED <<now, snapshot_num, games_data, idx, todays_games, processed_games, snap,
                   raw_props, props_data, anytime_td_props_data, sheet, game_ids, feed,
                   force_snapshot, props_feed, exc, api_calls, data_files, storevars>>

\* time passes between two calls
TimePasses ==
    /\ time < MaxTime
    /\ time' = time + Pause
    /\ UNCHANGED <<now, snapshot_num, games_data, idx, todays_games, processed_games, snap,
                   raw_props, props_data, anytime_td_props_data, sheet, pc, aux,
                   requests_made, request_timestamps, sent_at>>

InitRate ==
    /\ now \in {c \in Clock : c.ord = FirstDay /\ c.hour = 16 /\ c.minute = 0}
    /\ pc = "idle"
    /\ ClientIdle
    /\ Idle

NextRate == MakeRequest \/ TimePasses

SpecRate == InitRate /\ [][NextRate]_vars

\* the requests sent in the 60 seconds from t on
SentInWindow(t) == {i \in 1..Len(sent_at) : t <= sent_at[i] /\ sent_at[i] < t + 60}

\* C30: no 60-second window holds more than max_requests_per_minute of the
\* requests sent, and requests_made is the number of HTTP requests attempted,
\* failed ones included.
C30_RateBudget ==
    /\ \A i \in 1..Len(sent_at) :
          Cardinality(SentInWindow(sent_at[i])) <= max_requests_per_minute
    /\ requests_made = Len(sent_at)

\* the budget of the window alone
WindowBudget ==
    \A i \in 1..Len(sent_at) :
       Cardinality(SentInWindow(sent_at[i])) <= max_requests_per_minute

====
